---- MODULE Spec2Model ----
(***************************************************************************)
(* Model of ble-exporter: the BTHome packet parser (parser.py), the        *)
(* per-window aggregation and the acquisition loop (main.py), the status   *)
(* tracker and status handler (exporter.py), the metrics sink (metrics.py) *)
(* and the two scanners (scanner.py).                                      *)
(*                                                                         *)
(* Representation choices:                                                 *)
(*  - bytes are sequences of integers 0..255; Python index i is TLA+       *)
(*    index i+1;                                                           *)
(*  - floats are scaled integers: temperature and humidity in hundredths,  *)
(*    battery in tenths of a percent;                                      *)
(*  - dicts are functions whose DOMAIN is the key set; dicts whose         *)
(*    iteration order matters are sequences of <<key, value>> pairs in     *)
(*    insertion order;                                                     *)
(*  - now is int(time.time()): whole seconds.  An await that lasts at      *)
(*    least d seconds advances it by at least floor(d); only the sleeps    *)
(*    advance it (the time spent in start() and stop() of the BLE scanner  *)
(*    is counted in the overshoot of the sleep between them); the value    *)
(*    MaxClock stands for "MaxClock or later".                             *)
(*  - the asyncio task runs from one suspension point (await) to the next  *)
(*    without interleaving; each action is one such run.                   *)
(***************************************************************************)
EXTENDS Integers, Sequences, FiniteSets, TLC

VARIABLES
    config,           \* AppConfig: scan_interval_seconds, scan_duration_seconds, devices
    scanner,          \* the scanner object: kind, data (MockScanner), advertisements, running (BleakScannerImpl)
    status_tracker,   \* StatusTracker
    gauges,           \* the five Prometheus gauges, each a dict device label -> value
    pc,               \* the await at which scan_task is suspended
    sleep_duration,   \* argument of the asyncio.sleep of scan_loop the task is suspended in (0: none)
    now,              \* int(time.time())
    cancel_requested, \* scan_task.cancel() was called and not yet delivered
    cancel_point,     \* the await at which CancelledError was thrown into scan_task ("": none)
    radio,            \* environment: the detections the devices in range can cause
    cleanup,          \* position of cleanup_background_tasks
    scanSeq,          \* number of scanner.scan calls so far, modulo 2
    cycle,            \* what the most recent step of the loop did (locals and logger calls)
    snapshot,         \* status_data of the most recent /status response
    parse_call,       \* a direct call of parse_bthome: its argument and its outcome
    aggregate_call,   \* a direct call of aggregate_scan_results: arguments and outcome
    metrics_calls     \* the direct calls of update_metrics so far: <<device_name, measurements, time>>

vars == <<config, scanner, status_tracker, gauges, pc, sleep_duration, now,
          cancel_requested, cancel_point, radio, cleanup, scanSeq, cycle, snapshot,
          parse_call, aggregate_call, metrics_calls>>

(***************************************************************************)
(* Bounds                                                                  *)
(***************************************************************************)
MaxClock == 7       \* horizon of the clock, in seconds

MaxPayloadLen == 6  \* longest payload handed to parse_bthome directly

MaxScanResults == 3 \* longest list handed to aggregate_scan_results directly

MaxLoopLen == 5     \* longest payload of the calls followed iteration by iteration

MaxMetricsCalls == 3 \* longest sequence of direct calls of update_metrics

(***************************************************************************)
(* Dict helpers                                                            *)
(***************************************************************************)
EmptyMap == [k \in {} |-> 0]

\* variant of Put: a key that is present keeps its value
PutIfAbsent(d, k, v) == [x \in (DOMAIN d) \cup {k} |-> IF x \in DOMAIN d THEN d[x] ELSE v]

Put(d, k, v) == [x \in (DOMAIN d) \cup {k} |-> IF x = k THEN v ELSE d[x]]

\* dict.update
DictUpdate(d, e) == [x \in (DOMAIN d) \cup (DOMAIN e) |-> IF x \in DOMAIN e THEN e[x] ELSE d[x]]

Min(a, b) == IF a < b THEN a ELSE b

Max(a, b) == IF a > b THEN a ELSE b

(***************************************************************************)
(* parser.py: parse_bthome                                                 *)
(***************************************************************************)
ParseError(msg) == [error |-> msg, result |-> EmptyMap]

\* struct.unpack('<H', payload[idx:idx+2])[0]
UnpackU16(payload, idx) == payload[idx + 1] + 256 * payload[idx + 2]

\* variant of UnpackS16: the two bytes read as an unsigned number
UnpackS16Unsigned(payload, idx) == UnpackU16(payload, idx)

\* struct.unpack('<h', payload[idx:idx+2])[0]
UnpackS16(payload, idx) ==
    LET u == UnpackU16(payload, idx) IN IF u >= 32768 THEN u - 65536 ELSE u

\* variant of VoltageToBattery without the clamp of line 76
VoltageToBatteryNoClamp(voltage_raw) == voltage_raw - 2000

\* round(max(0.0, min(100.0, (voltage_raw * 0.001 - 2.0) / (3.0 - 2.0) * 100)), 1), in tenths
VoltageToBattery(voltage_raw) == Max(0, Min(1000, voltage_raw - 2000))

\* variant of SkipWidth: an id outside the table is given no value byte
SkipWidthNoDefault(object_id) ==
    IF object_id \in {0, 1, 5, 6, 7, 8, 9, 11, 13} THEN 1
    ELSE IF object_id \in {4, 14, 15, 17} THEN 2
    ELSE IF object_id \in {16} THEN 3
    ELSE 0

\* the else branch: width of an object that is skipped
SkipWidth(object_id) ==
    IF object_id \in {0, 1, 5, 6, 7, 8, 9, 11, 13} THEN 1
    ELSE IF object_id \in {4, 14, 15, 17} THEN 2
    ELSE IF object_id \in {16} THEN 3
    ELSE 1

\* lines 40-93: one iteration of the while loop, entered with idx0 < len(payload);
\* idx is the value of idx at the end of the iteration
ParseObject(payload, idx0, result) ==
    LET object_id == payload[idx0 + 1]
        idx == idx0 + 1
        raise(msg) == [error |-> msg, result |-> EmptyMap, idx |-> idx]
        next(width, r) == [error |-> "", result |-> r, idx |-> idx + width]
    IN  IF object_id = 2 THEN
            IF idx + 2 > Len(payload) THEN raise("Incomplete temperature data")
            ELSE next(2, Put(result, "temperature", UnpackS16(payload, idx)))
        ELSE IF object_id = 3 THEN
            IF idx + 2 > Len(payload) THEN raise("Incomplete humidity data")
            ELSE next(2, Put(result, "humidity", UnpackU16(payload, idx)))
        ELSE IF object_id = 10 THEN
            IF idx + 1 > Len(payload) THEN raise("Incomplete battery data")
            ELSE next(1, Put(result, "battery", 10 * payload[idx + 1]))
        ELSE IF object_id = 12 THEN
            IF idx + 2 > Len(payload) THEN raise("Incomplete voltage data")
            ELSE next(2, Put(result, "battery", VoltageToBattery(UnpackU16(payload, idx))))
        ELSE next(SkipWidth(object_id), result)

RECURSIVE ResultAtExit(_, _, _)
\* the local result of parse_bthome when the loop entered with idx0 and result is left,
\* by its condition or by a raise
ResultAtExit(payload, idx0, result) ==
    IF ~(idx0 < Len(payload)) THEN result
    ELSE
        LET o == ParseObject(payload, idx0, result)
        IN  IF o.error # "" THEN result ELSE ResultAtExit(payload, o.idx, o.result)

RECURSIVE ParseObjectsVoltageUnknown(_, _, _)
\* variant of ParseObjects without the branch of object 0x0C (lines 68-77)
ParseObjectsVoltageUnknown(payload, idx0, result) ==
    IF ~(idx0 < Len(payload)) THEN [error |-> "", result |-> result]
    ELSE
        LET object_id == payload[idx0 + 1]
            idx == idx0 + 1
        IN  IF object_id = 2 THEN
                IF idx + 2 > Len(payload) THEN ParseError("Incomplete temperature data")
                ELSE ParseObjectsVoltageUnknown(payload, idx + 2,
                         Put(result, "temperature", UnpackS16(payload, idx)))
            ELSE IF object_id = 3 THEN
                IF idx + 2 > Len(payload) THEN ParseError("Incomplete humidity data")
                ELSE ParseObjectsVoltageUnknown(payload, idx + 2,
                         Put(result, "humidity", UnpackU16(payload, idx)))
            ELSE IF object_id = 10 THEN
                IF idx + 1 > Len(payload) THEN ParseError("Incomplete battery data")
                ELSE ParseObjectsVoltageUnknown(payload, idx + 1,
                         Put(result, "battery", 10 * payload[idx + 1]))
            ELSE ParseObjectsVoltageUnknown(payload, idx + SkipWidth(object_id), result)

RECURSIVE ParseObjects(_, _, _)
\* the while loop of parse_bthome, entered with idx and result
ParseObjects(payload, idx0, result) ==
    IF ~(idx0 < Len(payload)) THEN [error |-> "", result |-> result]
    ELSE
        LET object_id == payload[idx0 + 1]
            idx == idx0 + 1
        IN  IF object_id = 2 THEN
                IF idx + 2 > Len(payload) THEN ParseError("Incomplete temperature data")
                ELSE ParseObjects(payload, idx + 2,
                                  Put(result, "temperature", UnpackS16(payload, idx)))
            ELSE IF object_id = 3 THEN
                IF idx + 2 > Len(payload) THEN ParseError("Incomplete humidity data")
                ELSE ParseObjects(payload, idx + 2,
                                  Put(result, "humidity", UnpackU16(payload, idx)))
            ELSE IF object_id = 10 THEN
                IF idx + 1 > Len(payload) THEN ParseError("Incomplete battery data")
                ELSE ParseObjects(payload, idx + 1,
                                  Put(result, "battery", 10 * payload[idx + 1]))
            ELSE IF object_id = 12 THEN
                IF idx + 2 > Len(payload) THEN ParseError("Incomplete voltage data")
                ELSE ParseObjects(payload, idx + 2,
                                  Put(result, "battery", VoltageToBattery(UnpackU16(payload, idx))))
            ELSE ParseObjects(payload, idx + SkipWidth(object_id), result)

\* variant of parse_bthome: the length test of line 27 with 1 in place of 2
parse_bthome_min1(payload) ==
    IF Len(payload) < 1 THEN ParseError("Packet too short to be valid BTHome")
    ELSE
        LET r == ParseObjects(payload, 1, EmptyMap)
        IN  IF r.error # "" THEN r
            ELSE IF DOMAIN r.result = {} THEN ParseError("No valid sensor data found in packet")
            ELSE r

\* variant of parse_bthome without the test of line 95
parse_bthome_no_check(payload) ==
    IF Len(payload) < 2 THEN ParseError("Packet too short to be valid BTHome")
    ELSE ParseObjects(payload, 1, EmptyMap)

\* error = "" means the call returned result; otherwise it raised ValueError(error)
parse_bthome(payload) ==
    IF Len(payload) < 2 THEN ParseError("Packet too short to be valid BTHome")
    ELSE
        LET r == ParseObjects(payload, 1, EmptyMap)
        IN  IF r.error # "" THEN r
            ELSE IF DOMAIN r.result = {} THEN ParseError("No valid sensor data found in packet")
            ELSE r

(***************************************************************************)
(* main.py: aggregate_scan_results                                         *)
(***************************************************************************)
RECURSIVE GroupByMacNoFilter(_, _, _)
\* variant of GroupByMac without the test of line 46
GroupByMacNoFilter(scan_results, known_macs, packets_by_mac) ==
    IF scan_results = <<>> THEN packets_by_mac
    ELSE
        LET mac == Head(scan_results)[1]
            payload == Head(scan_results)[2]
            rest == Tail(scan_results)
        IN  IF \E i \in 1..Len(packets_by_mac) : packets_by_mac[i][1] = mac
            THEN GroupByMacNoFilter(rest, known_macs,
                     [i \in 1..Len(packets_by_mac) |->
                         IF packets_by_mac[i][1] = mac
                         THEN <<mac, Append(packets_by_mac[i][2], payload)>>
                         ELSE packets_by_mac[i]])
            ELSE GroupByMacNoFilter(rest, known_macs,
                                    Append(packets_by_mac, <<mac, <<payload>>>>))

RECURSIVE GroupByMacConsecutive(_, _, _)
\* variant of GroupByMac: an entry whose MAC is not the MAC of the newest group
\* starts the list of its MAC afresh
GroupByMacConsecutive(scan_results, known_macs, packets_by_mac) ==
    IF scan_results = <<>> THEN packets_by_mac
    ELSE
        LET mac == Head(scan_results)[1]
            payload == Head(scan_results)[2]
            rest == Tail(scan_results)
            n == Len(packets_by_mac)
        IN  IF mac \notin known_macs
            THEN GroupByMacConsecutive(rest, known_macs, packets_by_mac)
            ELSE IF \E i \in 1..n : packets_by_mac[i][1] = mac
            THEN GroupByMacConsecutive(rest, known_macs,
                     [i \in 1..n |->
                         IF packets_by_mac[i][1] = mac
                         THEN <<mac, IF i = n THEN Append(packets_by_mac[i][2], payload)
                                     ELSE <<payload>> >>
                         ELSE packets_by_mac[i]])
            ELSE GroupByMacConsecutive(rest, known_macs,
                                       Append(packets_by_mac, <<mac, <<payload>>>>))

RECURSIVE GroupByMacPerEntry(_, _, _)
\* variant of GroupByMac: every entry of a known MAC opens a group of its own
GroupByMacPerEntry(scan_results, known_macs, packets_by_mac) ==
    IF scan_results = <<>> THEN packets_by_mac
    ELSE
        LET mac == Head(scan_results)[1]
            payload == Head(scan_results)[2]
            rest == Tail(scan_results)
        IN  IF mac \notin known_macs THEN GroupByMacPerEntry(rest, known_macs, packets_by_mac)
            ELSE GroupByMacPerEntry(rest, known_macs,
                                    Append(packets_by_mac, <<mac, <<payload>>>>))

RECURSIVE GroupByMac(_, _, _)
\* lines 44-50: packets_by_mac as a sequence of <<mac, payloads>> in insertion order
GroupByMac(scan_results, known_macs, packets_by_mac) ==
    IF scan_results = <<>> THEN packets_by_mac
    ELSE
        LET mac == Head(scan_results)[1]
            payload == Head(scan_results)[2]
            rest == Tail(scan_results)
        IN  IF mac \notin known_macs THEN GroupByMac(rest, known_macs, packets_by_mac)
            ELSE IF \E i \in 1..Len(packets_by_mac) : packets_by_mac[i][1] = mac
            THEN GroupByMac(rest, known_macs,
                     [i \in 1..Len(packets_by_mac) |->
                         IF packets_by_mac[i][1] = mac
                         THEN <<mac, Append(packets_by_mac[i][2], payload)>>
                         ELSE packets_by_mac[i]])
            ELSE GroupByMac(rest, known_macs, Append(packets_by_mac, <<mac, <<payload>>>>))

RECURSIVE MergePayloadsReplace(_, _)
\* variant of MergePayloads: the measurements of a payload replace the merged ones
MergePayloadsReplace(payloads, merged_measurements) ==
    IF payloads = <<>> THEN merged_measurements
    ELSE
        LET r == parse_bthome(Head(payloads))
        IN  MergePayloadsReplace(Tail(payloads),
                                 IF r.error = "" THEN r.result ELSE merged_measurements)

RECURSIVE MergePayloadsStopOnError(_, _)
\* variant of MergePayloads: the first payload that fails ends the loop
MergePayloadsStopOnError(payloads, merged_measurements) ==
    IF payloads = <<>> THEN merged_measurements
    ELSE
        LET r == parse_bthome(Head(payloads))
        IN  IF r.error = ""
            THEN MergePayloadsStopOnError(Tail(payloads),
                                          DictUpdate(merged_measurements, r.result))
            ELSE merged_measurements

RECURSIVE MergePayloadsPartial(_, _)
\* variant of MergePayloads: what a payload decoded before it failed is merged as well
MergePayloadsPartial(payloads, merged_measurements) ==
    IF payloads = <<>> THEN merged_measurements
    ELSE
        LET r == parse_bthome(Head(payloads))
        IN  MergePayloadsPartial(Tail(payloads),
                IF r.error = "" THEN DictUpdate(merged_measurements, r.result)
                ELSE IF Len(Head(payloads)) < 2 THEN merged_measurements
                ELSE DictUpdate(merged_measurements,
                                ResultAtExit(Head(payloads), 1, EmptyMap)))

RECURSIVE MergePayloads(_, _)
\* lines 60-69: the inner loop over the payloads of one MAC
MergePayloads(payloads, merged_measurements) ==
    IF payloads = <<>> THEN merged_measurements
    ELSE
        LET r == parse_bthome(Head(payloads))
        IN  MergePayloads(Tail(payloads),
                          IF r.error = "" THEN DictUpdate(merged_measurements, r.result)
                          ELSE merged_measurements)

RECURSIVE MergeAllKeepsEmpty(_)
\* variant of MergeAll without the test of line 72
MergeAllKeepsEmpty(packets_by_mac) ==
    IF packets_by_mac = <<>> THEN <<>>
    ELSE <<<<Head(packets_by_mac)[1], MergePayloads(Head(packets_by_mac)[2], EmptyMap)>>>>
         \o MergeAllKeepsEmpty(Tail(packets_by_mac))

RECURSIVE MergeAll(_)
\* lines 59-74: aggregated as a sequence of <<mac, merged_measurements>> in insertion order
MergeAll(packets_by_mac) ==
    IF packets_by_mac = <<>> THEN <<>>
    ELSE
        LET mac == Head(packets_by_mac)[1]
            merged_measurements == MergePayloads(Head(packets_by_mac)[2], EmptyMap)
        IN  IF DOMAIN merged_measurements # {}
            THEN <<<<mac, merged_measurements>>>> \o MergeAll(Tail(packets_by_mac))
            ELSE MergeAll(Tail(packets_by_mac))

\* variant of aggregate_scan_results: a warning for every MAC with a payload that failed
AggregateWarnAnyFailure(scan_results, known_macs) ==
    LET packets_by_mac == GroupByMac(scan_results, known_macs, <<>>)
        aggregated == MergeAll(packets_by_mac)
        failed_known_macs ==
            {packets_by_mac[i][1] : i \in {j \in 1..Len(packets_by_mac) :
                \E k \in 1..Len(packets_by_mac[j][2]) :
                    parse_bthome(packets_by_mac[j][2][k]).error # ""}}
    IN  [aggregated |-> aggregated,
         warnings |-> [mac \in failed_known_macs |-> 1],
         parsed |-> UNION { {<<packets_by_mac[i][1], packets_by_mac[i][2][j]>> :
                               j \in 1..Len(packets_by_mac[i][2])} :
                            i \in 1..Len(packets_by_mac) }]

\* variant of aggregate_scan_results: one warning for every payload that failed
AggregateWarnPerPayload(scan_results, known_macs) ==
    LET packets_by_mac == GroupByMac(scan_results, known_macs, <<>>)
        seen_macs == {packets_by_mac[i][1] : i \in 1..Len(packets_by_mac)}
        aggregated == MergeAll(packets_by_mac)
        successful_macs == {aggregated[i][1] : i \in 1..Len(aggregated)}
        failed_known_macs == (seen_macs \cap known_macs) \ successful_macs
    IN  [aggregated |-> aggregated,
         warnings |-> [mac \in failed_known_macs |->
                          Cardinality({i \in 1..Len(scan_results) : scan_results[i][1] = mac})],
         parsed |-> UNION { {<<packets_by_mac[i][1], packets_by_mac[i][2][j]>> :
                               j \in 1..Len(packets_by_mac[i][2])} :
                            i \in 1..Len(packets_by_mac) }]

\* aggregated: the returned dict; warnings: the number of logger.warning calls per MAC;
\* parsed: the <<mac, payload>> pairs parse_bthome was called for (line 64)
aggregate_scan_results(scan_results, known_macs) ==
    LET packets_by_mac == GroupByMac(scan_results, known_macs, <<>>)
        seen_macs == {packets_by_mac[i][1] : i \in 1..Len(packets_by_mac)}
        aggregated == MergeAll(packets_by_mac)
        successful_macs == {aggregated[i][1] : i \in 1..Len(aggregated)}
        failed_known_macs == (seen_macs \cap known_macs) \ successful_macs
    IN  [aggregated |-> aggregated,
         warnings |-> [mac \in failed_known_macs |-> 1],
         parsed |-> UNION { {<<packets_by_mac[i][1], packets_by_mac[i][2][j]>> :
                               j \in 1..Len(packets_by_mac[i][2])} :
                            i \in 1..Len(packets_by_mac) }]

(***************************************************************************)
(* Inputs                                                                  *)
(***************************************************************************)
MacLivingRoom == "A4:C1:38:11:22:33"

MacBedroom == "A4:C1:38:44:55:66"

MacUnknown == "FF:FF:FF:FF:FF:FF"

MACs == {MacLivingRoom, MacBedroom, MacUnknown}

\* temperature 21.50, humidity 65.40
PacketTempHum == <<64, 2, 102, 8, 3, 140, 25>>

\* battery 85
PacketBattery == <<64, 10, 85>>

\* temperature object cut after one byte
PacketIncomplete == <<64, 2, 110>>

Payloads == {PacketTempHum, PacketBattery, PacketIncomplete}

\* config.devices as load_config accepts it: any mapping, the names are not validated
Registries ==
    { (MacLivingRoom :> "living_room") @@ (MacBedroom :> "bedroom"),
      (MacLivingRoom :> "living_room") @@ (MacBedroom :> ""),
      (MacLivingRoom :> "living_room"),
      [m \in {} |-> ""] }

\* <<scan_interval_seconds, scan_duration_seconds>>
Timings == { <<1, 1>>, <<3, 1>>, <<1, 2>> }

\* the configurations run with the hardware scanner
BleakTimings == { <<3, 1>>, <<1, 2>> }

BleakRegistries == { (MacLivingRoom :> "living_room") @@ (MacBedroom :> "bedroom") }

\* MockScanner(data=...): the lists the tests preload
MockDatas ==
    { <<>>,
      << <<MacLivingRoom, PacketTempHum>> >>,
      << <<MacUnknown, PacketTempHum>> >>,
      << <<MacLivingRoom, PacketIncomplete>> >>,
      << <<MacLivingRoom, PacketTempHum>>, <<MacLivingRoom, PacketBattery>> >>,
      << <<MacLivingRoom, PacketTempHum>>, <<MacBedroom, PacketBattery>> >>,
      << <<MacBedroom, PacketIncomplete>>, <<MacBedroom, PacketBattery>>,
         <<MacUnknown, PacketBattery>> >> }

StartClock == 1

(***************************************************************************)
(* metrics.py                                                              *)
(***************************************************************************)
NoGauges ==
    [temperature |-> EmptyMap, humidity |-> EmptyMap, battery |-> EmptyMap,
     last_update |-> EmptyMap, seen |-> EmptyMap]

\* variant of update_metrics: a quantity missing from measurements is set to 0
update_metrics_reset_absent(g, device_name, measurements, t) ==
    [temperature |-> Put(g.temperature, device_name,
                         IF "temperature" \in DOMAIN measurements
                         THEN measurements["temperature"] ELSE 0),
     humidity |-> Put(g.humidity, device_name,
                      IF "humidity" \in DOMAIN measurements
                      THEN measurements["humidity"] ELSE 0),
     battery |-> Put(g.battery, device_name,
                     IF "battery" \in DOMAIN measurements
                     THEN measurements["battery"] ELSE 0),
     last_update |-> Put(g.last_update, device_name, t),
     seen |-> Put(g.seen, device_name, 1)]

\* variant of update_metrics: a gauge that has a value keeps it
update_metrics_keep_first(g, device_name, measurements, t) ==
    [temperature |-> IF "temperature" \in DOMAIN measurements
                     THEN PutIfAbsent(g.temperature, device_name, measurements["temperature"])
                     ELSE g.temperature,
     humidity |-> IF "humidity" \in DOMAIN measurements
                  THEN PutIfAbsent(g.humidity, device_name, measurements["humidity"])
                  ELSE g.humidity,
     battery |-> IF "battery" \in DOMAIN measurements
                 THEN PutIfAbsent(g.battery, device_name, measurements["battery"])
                 ELSE g.battery,
     last_update |-> Put(g.last_update, device_name, t),
     seen |-> Put(g.seen, device_name, 1)]

\* update_metrics, called when time.time() is t
update_metrics(g, device_name, measurements, t) ==
    [temperature |-> IF "temperature" \in DOMAIN measurements
                     THEN Put(g.temperature, device_name, measurements["temperature"])
                     ELSE g.temperature,
     humidity |-> IF "humidity" \in DOMAIN measurements
                  THEN Put(g.humidity, device_name, measurements["humidity"])
                  ELSE g.humidity,
     battery |-> IF "battery" \in DOMAIN measurements
                 THEN Put(g.battery, device_name, measurements["battery"])
                 ELSE g.battery,
     last_update |-> Put(g.last_update, device_name, t),
     seen |-> Put(g.seen, device_name, 1)]

(***************************************************************************)
(* exporter.py                                                             *)
(***************************************************************************)
\* variant of NewStatusTracker with the two constructor arguments exchanged
NewStatusTrackerSwapped(cfg) ==
    [scan_interval_seconds |-> cfg.scan_duration_seconds,
     scan_duration_seconds |-> cfg.scan_interval_seconds,
     last_scan_timestamp |-> 0,
     devices_seen |-> 0]

\* StatusTracker(scan_interval_seconds=..., scan_duration_seconds=...) as main() builds it
NewStatusTracker(cfg) ==
    [scan_interval_seconds |-> cfg.scan_interval_seconds,
     scan_duration_seconds |-> cfg.scan_duration_seconds,
     last_scan_timestamp |-> 0,
     devices_seen |-> 0]

\* variant of StatusUpdate that writes the timestamp only
StatusUpdateTimestampOnly(st, timestamp, num_devices) ==
    [st EXCEPT !.last_scan_timestamp = timestamp]

\* variant of StatusUpdate with the two arguments exchanged
StatusUpdateSwapped(st, timestamp, num_devices) ==
    [st EXCEPT !.last_scan_timestamp = num_devices, !.devices_seen = timestamp]

\* StatusTracker.update: two assignments with no await in between
StatusUpdate(st, timestamp, num_devices) ==
    [st EXCEPT !.last_scan_timestamp = timestamp, !.devices_seen = num_devices]

\* status_handler: status_data, built with no await between the four reads
StatusData(st) ==
    [scan_interval_seconds |-> st.scan_interval_seconds,
     scan_duration_seconds |-> st.scan_duration_seconds,
     last_scan_timestamp |-> st.last_scan_timestamp,
     devices_seen |-> st.devices_seen]

NoSnapshot == [scan_interval_seconds |-> 0, scan_duration_seconds |-> 0,
               last_scan_timestamp |-> -1, devices_seen |-> -1]

(***************************************************************************)
(* main.py: scan_loop                                                      *)
(***************************************************************************)
NoneValue == "<None>"

\* dict.get(key)
DictGet(d, k) == IF k \in DOMAIN d THEN d[k] ELSE NoneValue

\* truth value of a str or None
Truthy(v) == v \notin {NoneValue, ""}

\* variant of IsException: a handler that catches BaseException
IsExceptionCatchAll(exc) == TRUE

\* variant of IsException: a handler that catches ValueError only
IsExceptionValueErrorOnly(exc) == exc = "ValueError"

\* except Exception: CancelledError derives from BaseException
IsException(exc) == exc # "CancelledError"

\* variant of ScanError: the error of the BleakScanner is raised as it is
ScanErrorPassThrough(exc) == exc

\* scanner.py lines 90-91: except Exception as e: raise RuntimeError(...) from e
ScanError(exc) == IF IsException(exc) THEN "RuntimeError" ELSE exc

\* variant of RetryDelay: the idle interval
RetryDelayIdle == config.scan_interval_seconds - config.scan_duration_seconds

\* asyncio.sleep(5) of the error handler
RetryDelay == 5

RECURSIVE ForwardAllCountsIgnored(_, _, _, _)
\* variant of ForwardAll: devices_seen is incremented for the skipped entries as well
ForwardAllCountsIgnored(aggregated, devices, t, acc) ==
    IF aggregated = <<>> THEN acc
    ELSE
        LET mac == Head(aggregated)[1]
            measurements == Head(aggregated)[2]
            device_name == DictGet(devices, mac)
        IN  IF Truthy(device_name)
            THEN ForwardAllCountsIgnored(Tail(aggregated), devices, t,
                     [gauges |-> update_metrics(acc.gauges, device_name, measurements, t),
                      devices_seen |-> acc.devices_seen + 1,
                      forwarded |-> Append(acc.forwarded, <<mac, device_name, measurements>>),
                      ignored |-> acc.ignored])
            ELSE ForwardAllCountsIgnored(Tail(aggregated), devices, t,
                     [acc EXCEPT !.ignored = Append(acc.ignored, mac),
                                 !.devices_seen = acc.devices_seen + 1])

RECURSIVE ForwardAll(_, _, _, _)
\* lines 108-116: the loop over aggregated.items(); acc carries gauges, devices_seen
\* and the update_metrics calls made (forwarded) and skipped (ignored)
ForwardAll(aggregated, devices, t, acc) ==
    IF aggregated = <<>> THEN acc
    ELSE
        LET mac == Head(aggregated)[1]
            measurements == Head(aggregated)[2]
            device_name == DictGet(devices, mac)
        IN  IF Truthy(device_name)
            THEN ForwardAll(Tail(aggregated), devices, t,
                     [gauges |-> update_metrics(acc.gauges, device_name, measurements, t),
                      devices_seen |-> acc.devices_seen + 1,
                      forwarded |-> Append(acc.forwarded, <<mac, device_name, measurements>>),
                      ignored |-> acc.ignored])
            ELSE ForwardAll(Tail(aggregated), devices, t,
                     [acc EXCEPT !.ignored = Append(acc.ignored, mac)])

\* cycle: the most recent Acquiring step.  outcome, results, aggregated, warnings
\* (logger.warning calls of the aggregation per MAC), forwarded (update_metrics calls),
\* ignored, config_warnings and errors (logger.warning / logger.error calls of scan_loop)
\* describe that step; window holds the locals timestamp and devices_seen of the last
\* step that reached line 120; completed counts those steps (2 stands for 2 or more);
\* raised is the exception the handler of line 135 caught in that step ("": none);
\* failures counts the steps that failed since the last one that reached line 120
\* (2 stands for 2 or more).
NoCycle ==
    [outcome |-> "none", results |-> <<>>, aggregated |-> <<>>, warnings |-> EmptyMap,
     forwarded |-> <<>>, ignored |-> <<>>, config_warnings |-> 0, errors |-> 0,
     raised |-> "", failures |-> 0,
     window |-> [timestamp |-> 0, devices_seen |-> 0], completed |-> 0]

\* variant of ShouldSleep: a zero idle time sleeps as well
ShouldSleepZero(idle) == idle >= 0

\* line 126: if sleep_duration > 0
ShouldSleep(idle) == idle > 0

\* the clock after a sleep of d seconds: a sleep may overshoot into the next second
Elapsed(d) == {Min(now + e, MaxClock) : e \in {d, d + 1}}

ScanPcs == {"scan_mock", "scan_start", "scan_sleep", "scan_stop"}

\* variant of ClearAdvertisements: scan without line 75
ClearAdvertisementsKeep(sc) == sc

\* BleakScannerImpl.scan line 75: self.advertisements = {}
ClearAdvertisements(sc) ==
    IF sc.kind = "bleak" THEN [sc EXCEPT !.advertisements = <<>>] ELSE sc

\* variant of CallScan: the scan is asked to last scan_interval_seconds
CallScanInterval(sc) ==
    /\ scanSeq' = 1 - scanSeq
    /\ scanner' = [ClearAdvertisements(sc) EXCEPT !.duration_s = config.scan_interval_seconds]
    /\ pc' = IF sc.kind = "mock" THEN "scan_mock" ELSE "scan_start"
    /\ sleep_duration' = 0

\* lines 98-101: top of the loop, up to the first await inside scanner.scan;
\* duration_s is the argument of the call
CallScan(sc) ==
    /\ scanSeq' = 1 - scanSeq
    /\ scanner' = [ClearAdvertisements(sc) EXCEPT !.duration_s = config.scan_duration_seconds]
    /\ pc' = IF sc.kind = "mock" THEN "scan_mock" ELSE "scan_start"
    /\ sleep_duration' = 0

\* variant of ScanReturned: the step ends after the loop of lines 109-116, before line 120
ScanReturnedSinkOnly(results, sc, t) ==
    \E agg \in {aggregate_scan_results(results, DOMAIN config.devices)} :
    \E fw \in {ForwardAll(agg.aggregated, config.devices, t,
                          [gauges |-> gauges, devices_seen |-> 0,
                           forwarded |-> <<>>, ignored |-> <<>>])} :
    LET timestamp == t
        idle == config.scan_interval_seconds - config.scan_duration_seconds
    IN  /\ now' = t
        /\ gauges' = fw.gauges
        /\ UNCHANGED status_tracker
        /\ cycle' = [outcome |-> "ok", results |-> results,
                     aggregated |-> agg.aggregated, warnings |-> agg.warnings,
                     forwarded |-> fw.forwarded, ignored |-> fw.ignored,
                     config_warnings |-> IF ShouldSleep(idle) THEN 0 ELSE 1,
                     errors |-> 0,
                     raised |-> "", failures |-> 0,
                     window |-> [timestamp |-> timestamp, devices_seen |-> fw.devices_seen],
                     completed |-> Min(cycle.completed + 1, 2)]
        /\ IF ShouldSleep(idle)
           THEN /\ pc' = "idle_sleep"
                /\ sleep_duration' = idle
                /\ scanner' = sc
                /\ UNCHANGED scanSeq
           ELSE CallScan(sc)

\* lines 103-133: scanner.scan returned results when the clock is t
ScanReturned(results, sc, t) ==
    \E agg \in {aggregate_scan_results(results, DOMAIN config.devices)} :
    \E fw \in {ForwardAll(agg.aggregated, config.devices, t,
                          [gauges |-> gauges, devices_seen |-> 0,
                           forwarded |-> <<>>, ignored |-> <<>>])} :
    LET timestamp == t
        idle == config.scan_interval_seconds - config.scan_duration_seconds
    IN  /\ now' = t
        /\ gauges' = fw.gauges
        /\ status_tracker' = StatusUpdate(status_tracker, timestamp, fw.devices_seen)
        /\ cycle' = [outcome |-> "ok", results |-> results,
                     aggregated |-> agg.aggregated, warnings |-> agg.warnings,
                     forwarded |-> fw.forwarded, ignored |-> fw.ignored,
                     config_warnings |-> IF ShouldSleep(idle) THEN 0 ELSE 1,
                     errors |-> 0,
                     raised |-> "", failures |-> 0,
                     window |-> [timestamp |-> timestamp, devices_seen |-> fw.devices_seen],
                     completed |-> Min(cycle.completed + 1, 2)]
        /\ IF ShouldSleep(idle)
           THEN /\ pc' = "idle_sleep"
                /\ sleep_duration' = idle
                /\ scanner' = sc
                /\ UNCHANGED scanSeq
           ELSE CallScan(sc)

\* variant of Raised: whatever is raised, the status is reset and the loop retries
RaisedResetsStatus(exc, sc, t) ==
    /\ now' = t
    /\ scanner' = sc
    /\ UNCHANGED <<gauges, scanSeq>>
    /\ status_tracker' = NewStatusTracker(config)
    /\ IF IsException(exc)
       THEN /\ pc' = "retry_sleep"
            /\ sleep_duration' = RetryDelay
            /\ cycle' = [NoCycle EXCEPT !.outcome = "error", !.errors = 1, !.raised = exc,
                                        !.failures = Min(cycle.failures + 1, 2),
                                        !.window = cycle.window,
                                        !.completed = cycle.completed]
       ELSE /\ pc' = IF exc = "CancelledError" THEN "cancelled" ELSE "failed"
            /\ sleep_duration' = 0
            /\ UNCHANGED cycle

\* variant of Raised: the handler records the failed attempt in the status
RaisedUpdatesStatus(exc, sc, t) ==
    /\ now' = t
    /\ scanner' = sc
    /\ UNCHANGED <<gauges, scanSeq>>
    /\ IF IsException(exc)
       THEN /\ pc' = "retry_sleep"
            /\ sleep_duration' = RetryDelay
            /\ status_tracker' = StatusUpdate(status_tracker, t, 0)
            /\ cycle' = [NoCycle EXCEPT !.outcome = "error", !.errors = 1, !.raised = exc,
                                        !.failures = Min(cycle.failures + 1, 2),
                                        !.window = cycle.window,
                                        !.completed = cycle.completed]
       ELSE /\ pc' = IF exc = "CancelledError" THEN "cancelled" ELSE "failed"
            /\ sleep_duration' = 0
            /\ UNCHANGED <<cycle, status_tracker>>

\* variant of Raised: the handler sets the device count of the status to 0
RaisedClearsDevices(exc, sc, t) ==
    /\ now' = t
    /\ scanner' = sc
    /\ UNCHANGED <<gauges, scanSeq>>
    /\ status_tracker' = [status_tracker EXCEPT !.devices_seen = IF IsException(exc) THEN 0 ELSE @]
    /\ IF IsException(exc)
       THEN /\ pc' = "retry_sleep"
            /\ sleep_duration' = RetryDelay
            /\ cycle' = [NoCycle EXCEPT !.outcome = "error", !.errors = 1, !.raised = exc,
                                        !.failures = Min(cycle.failures + 1, 2),
                                        !.window = cycle.window,
                                        !.completed = cycle.completed]
       ELSE /\ pc' = IF exc = "CancelledError" THEN "cancelled" ELSE "failed"
            /\ sleep_duration' = 0
            /\ UNCHANGED cycle

\* lines 135-138: exc was raised inside the try block when the clock is t;
\* an exception the handler does not catch ends the task
Raised(exc, sc, t) ==
    /\ now' = t
    /\ scanner' = sc
    /\ UNCHANGED <<gauges, status_tracker, scanSeq>>
    /\ IF IsException(exc)
       THEN /\ pc' = "retry_sleep"
            /\ sleep_duration' = RetryDelay
            /\ cycle' = [NoCycle EXCEPT !.outcome = "error", !.errors = 1, !.raised = exc,
                                        !.failures = Min(cycle.failures + 1, 2),
                                        !.window = cycle.window,
                                        !.completed = cycle.completed]
       ELSE /\ pc' = IF exc = "CancelledError" THEN "cancelled" ELSE "failed"
            /\ sleep_duration' = 0
            /\ UNCHANGED cycle

(***************************************************************************)
(* scanner.py                                                              *)
(***************************************************************************)
\* detections: <<device.address, advertisement_data.service_data values in dict order>>
Detections ==
    { <<MacLivingRoom, <<PacketTempHum>> >>,
      <<MacLivingRoom, <<PacketIncomplete>> >>,
      <<MacUnknown, << <<>>, PacketBattery >> >>,
      <<MacUnknown, <<>> >> }

\* self.advertisements[mac_address] = bytes(data) on an insertion-ordered dict
AdvertisementsPut(advertisements, mac_address, data) ==
    IF \E i \in 1..Len(advertisements) : advertisements[i][1] = mac_address
    THEN [i \in 1..Len(advertisements) |->
             IF advertisements[i][1] = mac_address THEN <<mac_address, data>>
             ELSE advertisements[i]]
    ELSE Append(advertisements, <<mac_address, data>>)

\* BleakScannerImpl._detection_callback: the first non-empty service data entry is stored
detection_callback(advertisements, mac_address, service_data) ==
    LET nonempty == {i \in 1..Len(service_data) : service_data[i] # <<>>}
    IN  IF nonempty = {} THEN advertisements
        ELSE LET first == CHOOSE i \in nonempty : \A j \in nonempty : i <= j
             IN  AdvertisementsPut(advertisements, mac_address, service_data[first])

(***************************************************************************)
(* State machine                                                           *)
(***************************************************************************)
\* no direct call of the library functions is in progress
\* quantity: the <<name, raw value>> the payload was encoded from, if it was
\* idx: the local idx while the call is inside its loop
NoParseCall ==
    [payload |-> <<>>, quantity |-> <<>>, state |-> "none", error |-> "", result |-> EmptyMap,
     idx |-> 0]

NoAggregateCall ==
    [scan_results |-> <<>>, known_macs |-> {}, state |-> "none",
     aggregated |-> <<>>, warnings |-> EmptyMap, parsed |-> {}]

SetUp(tm, devices, sc, detections) ==
    /\ config = [scan_interval_seconds |-> tm[1], scan_duration_seconds |-> tm[2],
                 devices |-> devices]
    /\ scanner = sc
    /\ radio = detections
    /\ status_tracker = NewStatusTracker(config)
    /\ gauges = NoGauges
    /\ pc = "created"
    /\ sleep_duration = 0
    /\ now = StartClock
    /\ cancel_requested = FALSE
    /\ cancel_point = ""
    /\ cleanup = "idle"
    /\ scanSeq = 0
    /\ cycle = NoCycle
    /\ snapshot = NoSnapshot
    /\ metrics_calls = <<>>

\* get_scanner(use_mock=True, data)
NewMockScanner(data) ==
    [kind |-> "mock", data |-> data, advertisements |-> <<>>, running |-> FALSE,
     duration_s |-> 0]

\* get_scanner(use_mock=False)
NewBleakScanner ==
    [kind |-> "bleak", data |-> <<>>, advertisements |-> <<>>, running |-> FALSE,
     duration_s |-> 0]

\* the state when start_background_tasks has created scan_task
Init ==
    /\ \/ \E tm \in Timings, devices \in Registries, data \in MockDatas :
              SetUp(tm, devices, NewMockScanner(data), {})
       \/ \E tm \in BleakTimings, devices \in BleakRegistries :
              SetUp(tm, devices, NewBleakScanner, Detections)
    /\ parse_call = NoParseCall
    /\ aggregate_call = NoAggregateCall

\* first step of scan_task after asyncio.create_task
TaskStart ==
    /\ pc = "created"
    /\ ~cancel_requested
    /\ CallScan(scanner)
    /\ UNCHANGED <<config, radio, cancel_point, status_tracker, gauges, now, cancel_requested, cleanup,
                   cycle, snapshot>>
    /\ UNCHANGED <<parse_call, aggregate_call, metrics_calls>>

\* MockScanner.scan: asyncio.sleep(0.01) is over, self.data.copy() is returned
MockScanReturn ==
    /\ pc = "scan_mock"
    /\ ~cancel_requested
    /\ \E t \in Elapsed(0) : ScanReturned(scanner.data, scanner, t)
    /\ UNCHANGED <<config, radio, cancel_point, cancel_requested, cleanup, snapshot>>
    /\ UNCHANGED <<parse_call, aggregate_call, metrics_calls>>

\* BleakScannerImpl.scan: await scanner.start() returned
BleakStarted ==
    /\ pc = "scan_start"
    /\ ~cancel_requested
    /\ scanner' = [scanner EXCEPT !.running = TRUE]
    /\ pc' = "scan_sleep"
    /\ UNCHANGED <<config, radio, cancel_point, status_tracker, gauges, sleep_duration, now, cancel_requested,
                   cleanup, scanSeq, cycle, snapshot>>
    /\ UNCHANGED <<parse_call, aggregate_call, metrics_calls>>

\* BleakScannerImpl.scan: await scanner.start() raised; lines 90-91 handle it
BleakStartFailed ==
    /\ pc = "scan_start"
    /\ ~cancel_requested
    /\ Raised(ScanError("BleakError"), scanner, now)
    /\ UNCHANGED <<config, radio, cancel_point, cancel_requested, cleanup, snapshot>>
    /\ UNCHANGED <<parse_call, aggregate_call, metrics_calls>>

\* a detection callback of a running BleakScanner
Detect ==
    /\ scanner.kind = "bleak"
    /\ scanner.running
    /\ \E d \in radio :
           scanner' = [scanner EXCEPT !.advertisements =
                          detection_callback(scanner.advertisements, d[1], d[2])]
    /\ UNCHANGED <<config, radio, cancel_point, status_tracker, gauges, pc, sleep_duration, now,
                   cancel_requested, cleanup, scanSeq, cycle, snapshot>>
    /\ UNCHANGED <<parse_call, aggregate_call, metrics_calls>>

\* BleakScannerImpl.scan: asyncio.sleep(duration_s) is over, scanner.stop() is awaited
BleakSleepDone ==
    /\ pc = "scan_sleep"
    /\ ~cancel_requested
    /\ \E t \in Elapsed(scanner.duration_s) : now' = t
    /\ pc' = "scan_stop"
    /\ UNCHANGED <<config, radio, cancel_point, scanner, status_tracker, gauges, sleep_duration,
                   cancel_requested, cleanup, scanSeq, cycle, snapshot>>
    /\ UNCHANGED <<parse_call, aggregate_call, metrics_calls>>

\* BleakScannerImpl.scan: await scanner.stop() returned, the list is returned
BleakStopped ==
    /\ pc = "scan_stop"
    /\ ~cancel_requested
    /\ ScanReturned(scanner.advertisements, [scanner EXCEPT !.running = FALSE], now)
    /\ UNCHANGED <<config, radio, cancel_point, cancel_requested, cleanup, snapshot>>
    /\ UNCHANGED <<parse_call, aggregate_call, metrics_calls>>

\* BleakScannerImpl.scan: await scanner.stop() raised; lines 90-91 handle it
BleakStopFailed ==
    /\ pc = "scan_stop"
    /\ ~cancel_requested
    /\ \E r \in BOOLEAN : Raised(ScanError("BleakError"), [scanner EXCEPT !.running = r], now)
    /\ UNCHANGED <<config, radio, cancel_point, cancel_requested, cleanup, snapshot>>
    /\ UNCHANGED <<parse_call, aggregate_call, metrics_calls>>

\* line 127: asyncio.sleep(sleep_duration) is over
IdleWake ==
    /\ pc = "idle_sleep"
    /\ ~cancel_requested
    /\ \E t \in Elapsed(sleep_duration) : now' = t
    /\ CallScan(scanner)
    /\ UNCHANGED <<config, radio, cancel_point, status_tracker, gauges, cancel_requested, cleanup,
                   cycle, snapshot>>
    /\ UNCHANGED <<parse_call, aggregate_call, metrics_calls>>

\* line 138: asyncio.sleep(5) is over
RetryWake ==
    /\ pc = "retry_sleep"
    /\ ~cancel_requested
    /\ \E t \in Elapsed(sleep_duration) : now' = t
    /\ CallScan(scanner)
    /\ UNCHANGED <<config, radio, cancel_point, status_tracker, gauges, cancel_requested, cleanup,
                   cycle, snapshot>>
    /\ UNCHANGED <<parse_call, aggregate_call, metrics_calls>>

\* the event loop throws CancelledError into scan_task at its current await
CancelDelivered ==
    /\ cancel_requested
    /\ pc \in ScanPcs \cup {"created", "idle_sleep", "retry_sleep"}
    /\ cancel_requested' = FALSE
    /\ cancel_point' = pc
    /\ IF pc \in ScanPcs \cup {"idle_sleep"}
       THEN \* inside the try block of scan_loop; scanner.py line 90 is passed first
            Raised(IF pc \in {"scan_start", "scan_sleep", "scan_stop"}
                   THEN ScanError("CancelledError") ELSE "CancelledError",
                   scanner, now)
       ELSE /\ pc' = "cancelled"
            /\ sleep_duration' = 0
            /\ UNCHANGED <<scanner, status_tracker, gauges, now, scanSeq, cycle>>
    /\ UNCHANGED <<config, radio, cleanup, snapshot>>
    /\ UNCHANGED <<parse_call, aggregate_call, metrics_calls>>

\* cleanup_background_tasks line 166: app['scan_task'].cancel()
CleanupCancel ==
    /\ cleanup = "idle"
    /\ cleanup' = "awaiting"
    /\ cancel_requested' = (pc \notin {"cancelled", "failed"})
    /\ UNCHANGED <<config, radio, cancel_point, scanner, status_tracker, gauges, pc, sleep_duration, now,
                   scanSeq, cycle, snapshot>>
    /\ UNCHANGED <<parse_call, aggregate_call, metrics_calls>>

\* cleanup_background_tasks lines 167-170: await app['scan_task'] is over
CleanupAwaited ==
    /\ cleanup = "awaiting"
    /\ pc \in {"cancelled", "failed"}
    /\ cleanup' = IF pc = "cancelled" THEN "done" ELSE "error"
    /\ UNCHANGED <<config, radio, cancel_point, scanner, status_tracker, gauges, pc, sleep_duration, now,
                   cancel_requested, scanSeq, cycle, snapshot>>
    /\ UNCHANGED <<parse_call, aggregate_call, metrics_calls>>

\* status_handler serves one GET /status
StatusRead ==
    /\ cleanup = "idle"
    /\ snapshot' = StatusData(status_tracker)
    /\ UNCHANGED <<config, radio, cancel_point, scanner, status_tracker, gauges, pc, sleep_duration, now,
                   cancel_requested, cleanup, scanSeq, cycle>>
    /\ UNCHANGED <<parse_call, aggregate_call, metrics_calls>>

LoopStep ==
    \/ TaskStart
    \/ MockScanReturn
    \/ BleakStarted
    \/ BleakStartFailed
    \/ BleakSleepDone
    \/ BleakStopped
    \/ BleakStopFailed
    \/ IdleWake
    \/ RetryWake

Next ==
    \/ TaskStart
    \/ MockScanReturn
    \/ BleakStarted
    \/ BleakStartFailed
    \/ Detect
    \/ BleakSleepDone
    \/ BleakStopped
    \/ BleakStopFailed
    \/ IdleWake
    \/ RetryWake
    \/ CancelDelivered
    \/ CleanupCancel
    \/ CleanupAwaited
    \/ StatusRead

Spec == Init /\ [][Next]_vars

\* a smaller set of initial states for the properties checked under fairness
FairInit ==
    /\ \/ \E tm \in Timings :
              SetUp(tm, (MacLivingRoom :> "living_room") @@ (MacBedroom :> ""),
                    NewMockScanner(<< <<MacLivingRoom, PacketTempHum>>,
                                      <<MacBedroom, PacketBattery>> >>), {})
       \/ \E tm \in BleakTimings, devices \in BleakRegistries :
              SetUp(tm, devices, NewBleakScanner, { <<MacLivingRoom, <<PacketTempHum>> >> })
    /\ parse_call = NoParseCall
    /\ aggregate_call = NoAggregateCall

\* the event loop runs every ready task, every await of the loop eventually ends
\* (by returning or by raising), and a requested cancellation is delivered
FairSpec ==
    /\ FairInit
    /\ [][Next]_vars
    /\ WF_vars(LoopStep)
    /\ WF_vars(CancelDelivered)
    /\ WF_vars(CleanupAwaited)

(***************************************************************************)
(* Direct calls of parse_bthome and aggregate_scan_results                 *)
(***************************************************************************)
\* object ids with a branch of their own, ids of each width of the skip table, an id
\* outside the table; as value bytes they give small, large and negative numbers
ParseBytes == {0, 2, 3, 4, 10, 12, 16, 255}

\* values of the device info byte, which line 34 skips
DeviceInfoBytes == {0, 64}

\* the bytes after the device info byte: up to MaxPayloadLen - 1 of them
ParseBodies == UNION { [1..n -> ParseBytes] : n \in 0..(MaxPayloadLen - 1) }

\* temperature 25.60
PacketTempOnly == <<64, 2, 0, 10>>

\* temperature 25.60, then a humidity object cut after one byte
PacketTempThenIncomplete == <<64, 2, 0, 10, 3, 140>>

AggregatePayloads ==
    {PacketTempHum, PacketBattery, PacketIncomplete, PacketTempOnly, PacketTempThenIncomplete}

AggregateEntries == MACs \X AggregatePayloads

AggregateInputs == UNION { [1..n -> AggregateEntries] : n \in 0..MaxScanResults }

KnownMacSets == { {MacLivingRoom, MacBedroom}, {MacLivingRoom}, {} }

\* the program as constructed, none of its tasks started
Constructed ==
    SetUp(<<3, 1>>, (MacLivingRoom :> "living_room") @@ (MacBedroom :> "bedroom"),
          NewMockScanner(<<>>), {})

ParseInit ==
    /\ Constructed
    /\ aggregate_call = NoAggregateCall
    /\ \/ parse_call = [NoParseCall EXCEPT !.state = "called"]
       \/ \E d \in DeviceInfoBytes, body \in ParseBodies :
              parse_call = [NoParseCall EXCEPT !.payload = <<d>> \o body, !.state = "called"]

\* parse_bthome(payload) runs to its return or to its raise ValueError
ParseCall ==
    /\ parse_call.state = "called"
    /\ \E r \in {parse_bthome(parse_call.payload)} :
           parse_call' = [parse_call EXCEPT
                             !.state = IF r.error = "" THEN "returned" ELSE "raised",
                             !.error = r.error,
                             !.result = r.result]
    /\ UNCHANGED <<config, scanner, status_tracker, gauges, pc, sleep_duration, now,
                   cancel_requested, cancel_point, radio, cleanup, scanSeq, cycle,
                   snapshot, aggregate_call, metrics_calls>>

ParseNext == ParseCall

ParseSpec == ParseInit /\ [][ParseNext]_vars

\* struct.pack('<H', raw % 65536): the two bytes of a 16-bit value, low byte first
Pack16(raw) == <<(raw % 65536) % 256, (raw % 65536) \div 256>>

\* the payload that carries one quantity: device info byte, object id, value bytes
Encode(quantity) ==
    IF quantity[1] = "temperature" THEN <<64, 2>> \o Pack16(quantity[2])
    ELSE IF quantity[1] = "humidity" THEN <<64, 3>> \o Pack16(quantity[2])
    ELSE IF quantity[1] = "voltage" THEN <<64, 12>> \o Pack16(quantity[2])
    ELSE <<64, 10, quantity[2]>>

\* parse_bthome is called with the encoding of every temperature, humidity and
\* voltage a 16-bit field can hold and of every battery byte
ValueInit ==
    /\ Constructed
    /\ aggregate_call = NoAggregateCall
    /\ \E quantity \in ({"temperature"} \X (-32768..32767))
                         \cup ({"humidity", "voltage"} \X (0..65535))
                         \cup ({"battery"} \X (0..255)) :
           parse_call = [NoParseCall EXCEPT !.payload = Encode(quantity),
                                            !.quantity = quantity,
                                            !.state = "called"]

ValueNext == ParseCall

ValueSpec == ValueInit /\ [][ValueNext]_vars

\* the bytes of the payloads followed iteration by iteration
LoopBytes == {2, 4, 10, 12, 16, 255}

LoopInit ==
    /\ Constructed
    /\ aggregate_call = NoAggregateCall
    /\ \/ parse_call = [NoParseCall EXCEPT !.state = "called"]
       \/ \E n \in 0..(MaxLoopLen - 1) : \E body \in [1..n -> LoopBytes] :
              parse_call = [NoParseCall EXCEPT !.payload = <<64>> \o body, !.state = "called"]

ParseFrame ==
    UNCHANGED <<config, scanner, status_tracker, gauges, pc, sleep_duration, now,
                cancel_requested, cancel_point, radio, cleanup, scanSeq, cycle,
                snapshot, aggregate_call, metrics_calls>>

\* lines 27-34: the length test, result = {}, idx = 1
ParseEnter ==
    /\ parse_call.state = "called"
    /\ parse_call' =
           IF Len(parse_call.payload) < 2
           THEN [parse_call EXCEPT !.state = "raised",
                                   !.error = "Packet too short to be valid BTHome"]
           ELSE [parse_call EXCEPT !.state = "loop", !.idx = 1, !.result = EmptyMap]
    /\ ParseFrame

\* lines 36-93: the loop condition holds and one iteration runs
ParseIteration ==
    /\ parse_call.state = "loop"
    /\ parse_call.idx < Len(parse_call.payload)
    /\ \E it \in {ParseObject(parse_call.payload, parse_call.idx, parse_call.result)} :
           parse_call' =
               IF it.error # ""
               THEN [parse_call EXCEPT !.state = "raised", !.error = it.error,
                                       !.result = EmptyMap, !.idx = it.idx]
               ELSE [parse_call EXCEPT !.result = it.result, !.idx = it.idx]
    /\ ParseFrame

\* lines 95-98: the loop condition fails
ParseExit ==
    /\ parse_call.state = "loop"
    /\ ~(parse_call.idx < Len(parse_call.payload))
    /\ parse_call' =
           IF DOMAIN parse_call.result = {}
           THEN [parse_call EXCEPT !.state = "raised",
                                   !.error = "No valid sensor data found in packet"]
           ELSE [parse_call EXCEPT !.state = "returned"]
    /\ ParseFrame

LoopNext ==
    \/ ParseEnter
    \/ ParseIteration
    \/ ParseExit

\* the call is not suspended: parse_bthome has no await
LoopSpec == LoopInit /\ [][LoopNext]_vars /\ WF_vars(LoopNext)

MetricsNames == {"living_room", "bedroom"}

\* measurement maps as the aggregation produces them
MetricsMaps ==
    { parse_bthome(PacketTempHum).result,
      parse_bthome(PacketBattery).result,
      parse_bthome(PacketTempOnly).result,
      DictUpdate(parse_bthome(PacketTempHum).result, parse_bthome(PacketBattery).result) }

MetricsInit ==
    /\ Constructed
    /\ parse_call = NoParseCall
    /\ aggregate_call = NoAggregateCall

\* update_metrics(device_name, measurements), called when time.time() is t
MetricsCall ==
    /\ Len(metrics_calls) < MaxMetricsCalls
    /\ \E device_name \in MetricsNames, measurements \in MetricsMaps,
          t \in {now, Min(now + 1, MaxClock)} :
           /\ gauges' = update_metrics(gauges, device_name, measurements, t)
           /\ now' = t
           /\ metrics_calls' = Append(metrics_calls, <<device_name, measurements, t>>)
    /\ UNCHANGED <<config, scanner, status_tracker, pc, sleep_duration,
                   cancel_requested, cancel_point, radio, cleanup, scanSeq, cycle,
                   snapshot, parse_call, aggregate_call>>

MetricsNext == MetricsCall

MetricsSpec == MetricsInit /\ [][MetricsNext]_vars

AggregateInit ==
    /\ Constructed
    /\ parse_call = NoParseCall
    /\ \E scan_results \in AggregateInputs, known_macs \in KnownMacSets :
           aggregate_call = [NoAggregateCall EXCEPT !.scan_results = scan_results,
                                                    !.known_macs = known_macs,
                                                    !.state = "called"]

\* aggregate_scan_results(scan_results, known_macs, logger) runs to its return
AggregateCall ==
    /\ aggregate_call.state = "called"
    /\ \E r \in {aggregate_scan_results(aggregate_call.scan_results,
                                         aggregate_call.known_macs)} :
           aggregate_call' = [aggregate_call EXCEPT
                                 !.state = "returned",
                                 !.aggregated = r.aggregated,
                                 !.warnings = r.warnings,
                                 !.parsed = r.parsed]
    /\ UNCHANGED <<config, scanner, status_tracker, gauges, pc, sleep_duration, now,
                   cancel_requested, cancel_point, radio, cleanup, scanSeq, cycle,
                   snapshot, parse_call, metrics_calls>>

AggregateNext == AggregateCall

AggregateSpec == AggregateInit /\ [][AggregateNext]_vars

(***************************************************************************)
(* Step predicates used by the properties                                  *)
(***************************************************************************)
\* scanner.scan returns and the step runs lines 103-133
ScanSucceeds ==
    /\ pc \in {"scan_mock", "scan_stop"}
    /\ ~cancel_requested
    /\ pc' \notin {"retry_sleep", "failed", "cancelled"}
    /\ pc' # pc \/ scanSeq' # scanSeq

\* scanner.scan raises (not a cancellation)
ScanRaises ==
    /\ pc \in ScanPcs
    /\ ~cancel_requested
    /\ pc' \notin ScanPcs \cup {"idle_sleep"}

StatusPair(st) == <<st.last_scan_timestamp, st.devices_seen>>

WindowPair == <<cycle.window.timestamp, cycle.window.devices_seen>>

(***************************************************************************)
(* Properties of the acquisition loop                                      *)
(***************************************************************************)
\* C1: every update_metrics call of a cycle is for a MAC that is a key of
\* config.devices and that has, in the scan result of that same cycle, at least one
\* payload that parse_bthome decodes; the gauges only carry labels of the registry.
C1_ForwardedKnownAndDecoded ==
    /\ \A i \in 1..Len(cycle.forwarded) :
           LET mac == cycle.forwarded[i][1]
           IN  /\ mac \in DOMAIN config.devices
               /\ \E j \in 1..Len(cycle.results) :
                      /\ cycle.results[j][1] = mac
                      /\ parse_bthome(cycle.results[j][2]).error = ""
    /\ DOMAIN gauges.seen \subseteq {config.devices[m] : m \in DOMAIN config.devices}

\* a cycle that forwarded a device while its scan result also held an unknown device
\* and a payload that does not decode
C1_Witness ==
    /\ Len(cycle.forwarded) > 0
    /\ \E j \in 1..Len(cycle.results) : cycle.results[j][1] \notin DOMAIN config.devices
    /\ \E j \in 1..Len(cycle.results) : parse_bthome(cycle.results[j][2]).error # ""

Stopped == cancel_requested \/ pc = "cancelled"

\* C2: unless the loop is cancelled, scanner.scan is called again and again, whatever
\* mix of scan successes and scan failures happened before.
C2_ScansRecur ==
    /\ []<>(scanSeq = 0 \/ Stopped)
    /\ []<>(scanSeq = 1 \/ Stopped)

\* a new scan is running although scans have both succeeded and failed before
C2_Witness ==
    /\ pc \in ScanPcs
    /\ cycle.outcome = "error"
    /\ cycle.completed >= 1
    /\ ~Stopped

\* C3: when scanner.scan raises, the error is logged, the loop sleeps for the fixed
\* 5 seconds, and what follows that sleep is a new call of scanner.scan (or the
\* delivery of a cancellation).
C3_RetryAfterError ==
    [][ /\ ScanRaises =>
              /\ pc' = "retry_sleep"
              /\ sleep_duration' = 5
              /\ cycle'.outcome = "error"
              /\ cycle'.errors = 1
        /\ (pc = "retry_sleep" /\ pc' # pc) =>
              \/ pc' = "cancelled"
              \/ /\ pc' \in ScanPcs
                 /\ scanSeq' # scanSeq
                 /\ now' >= now + 5 \/ now' = MaxClock
      ]_vars

\* the retry sleep is over and the hardware scanner is being started again
C3_Witness ==
    /\ pc = "scan_start"
    /\ cycle.outcome = "error"
    /\ now >= StartClock + 5

\* C4: after a cancellation thrown into scanner.scan, the status holds the timestamp
\* and device count of the last window that completed (0 and 0 if none did).
C4_CancelMidScanKeepsStatus ==
    (pc = "cancelled" /\ cancel_point \in ScanPcs) =>
        StatusPair(status_tracker) = WindowPair

\* cancelled inside the scan that followed a completed window
C4_Witness ==
    /\ pc = "cancelled"
    /\ cancel_point \in ScanPcs
    /\ cycle.completed >= 1
    /\ status_tracker.last_scan_timestamp > 0

\* C5: a cancellation thrown into the idle sleep or the retry sleep ends the loop;
\* once ended, the loop calls no scan, writes no gauge and no status; and
\* cleanup_background_tasks returns, without an error.
C5_CancelInSleepTerminates ==
    /\ [][ /\ (cancel_requested /\ pc \in {"idle_sleep", "retry_sleep"} /\ pc' # pc)
                 => pc' = "cancelled"
           /\ pc = "cancelled" =>
                 /\ pc' = "cancelled"
                 /\ scanSeq' = scanSeq
                 /\ gauges' = gauges
                 /\ status_tracker' = status_tracker
           /\ cleanup' # "error"
         ]_vars
    /\ (cancel_requested /\ pc \in {"idle_sleep", "retry_sleep"}) ~> (cleanup = "done")

\* cleanup_background_tasks has returned after cancelling the loop in its idle sleep
C5_Witness ==
    /\ pc = "cancelled"
    /\ cancel_point = "idle_sleep"
    /\ cleanup = "done"

\* C6: after a successful scan, with idle = interval - duration: if idle > 0 the loop
\* sleeps idle seconds, logs no configuration warning, and scans when the sleep is
\* over; otherwise it logs one configuration warning and is inside the next
\* scanner.scan call at the end of the same step.
C6_IdleOrBackToBack ==
    [][ /\ ScanSucceeds =>
              LET idle == config.scan_interval_seconds - config.scan_duration_seconds
              IN  IF idle > 0
                  THEN /\ pc' = "idle_sleep"
                       /\ sleep_duration' = idle
                       /\ cycle'.config_warnings = 0
                       /\ scanSeq' = scanSeq
                  ELSE /\ pc' \in ScanPcs
                       /\ scanSeq' # scanSeq
                       /\ sleep_duration' = 0
                       /\ cycle'.config_warnings = 1
        /\ (pc = "idle_sleep" /\ pc' # pc) =>
              \/ pc' = "cancelled"
              \/ /\ pc' \in ScanPcs
                 /\ scanSeq' # scanSeq
                 /\ now' >= now + sleep_duration \/ now' = MaxClock
      ]_vars

\* interval = duration: the warning was logged and the next scan is running
C6_Witness ==
    /\ config.scan_interval_seconds = config.scan_duration_seconds
    /\ cycle.outcome = "ok"
    /\ cycle.config_warnings = 1
    /\ pc \in ScanPcs

\* C7: every /status response, and the status a response would carry in any state,
\* holds the timestamp and the device count of one and the same window.
C7_ConsistentSnapshot ==
    [][ /\ snapshot' # snapshot => StatusPair(snapshot') = WindowPair
        /\ StatusPair(StatusData(status_tracker')) = WindowPair'
      ]_vars

\* a response was served between two windows with different device counts
C7_Witness ==
    /\ snapshot # NoSnapshot
    /\ snapshot.devices_seen = 1
    /\ status_tracker.devices_seen = 0
    /\ snapshot.last_scan_timestamp < status_tracker.last_scan_timestamp

\* two cycles of the MockScanner follow each other with interval = duration = 1
MockBackToBack ==
    /\ ScanSucceeds
    /\ scanner.kind = "mock"
    /\ config.scan_interval_seconds = 1
    /\ config.scan_duration_seconds = 1
    /\ cycle.completed >= 1
    /\ now' < MaxClock

C9_DefaultsAndConfig ==
    /\ cycle.completed = 0 =>
          /\ StatusPair(status_tracker) = <<0, 0>>
          /\ snapshot # NoSnapshot => StatusPair(snapshot) = <<0, 0>>
    /\ status_tracker.scan_interval_seconds = config.scan_interval_seconds
    /\ status_tracker.scan_duration_seconds = config.scan_duration_seconds
    /\ snapshot # NoSnapshot =>
          /\ snapshot.scan_interval_seconds = config.scan_interval_seconds
          /\ snapshot.scan_duration_seconds = config.scan_duration_seconds

\* a response served after a failed scan, when no scan has succeeded yet
C9_Witness ==
    /\ cycle.outcome = "error"
    /\ cycle.completed = 0
    /\ snapshot # NoSnapshot
    /\ now > StartClock

\* C10: in a successful cycle update_metrics is called exactly once for every
\* (mac, measurements) of the aggregation, in its order, with the display name the
\* registry gives mac.
C10_ForwardsEveryAggregated ==
    cycle.outcome = "ok" =>
        cycle.forwarded =
            [i \in 1..Len(cycle.aggregated) |->
                <<cycle.aggregated[i][1], config.devices[cycle.aggregated[i][1]],
                  cycle.aggregated[i][2]>>]

\* the MACs of the update_metrics calls of the latest cycle
ForwardedMacs(c) == {c.forwarded[i][1] : i \in 1..Len(c.forwarded)}

\* C11: a successful cycle leaves in the status the clock value of that cycle and, as
\* device count, the number of distinct MACs update_metrics was called for in that
\* cycle: one per MAC however many packets it sent, and 0 when every packet of the
\* scan came from an unknown MAC or failed to decode.
C11_StatusCountsReportedDevices ==
    [][ ScanSucceeds =>
          /\ cycle'.outcome = "ok"
          /\ status_tracker'.last_scan_timestamp = now'
          /\ status_tracker'.devices_seen = Cardinality(ForwardedMacs(cycle'))
          /\ Len(cycle'.forwarded) = Cardinality(ForwardedMacs(cycle'))
          /\ (\A j \in 1..Len(cycle'.results) :
                  \/ cycle'.results[j][1] \notin DOMAIN config.devices
                  \/ parse_bthome(cycle'.results[j][2]).error # "")
                => status_tracker'.devices_seen = 0
      ]_vars

\* a cycle whose scan held two packets of one known MAC and counted one device
C11_Witness ==
    /\ cycle.outcome = "ok"
    /\ status_tracker.devices_seen = 1
    /\ status_tracker.last_scan_timestamp > StartClock
    /\ \E i, j \in 1..Len(cycle.results) :
           i < j /\ cycle.results[i][1] = cycle.results[j][1]
                 /\ cycle.results[i][1] \in ForwardedMacs(cycle)

(***************************************************************************)
(* Properties of aggregate_scan_results                                    *)
(***************************************************************************)
\* the indices of the entries of mac in the list given to aggregate_scan_results
EntriesOf(mac) ==
    {i \in 1..Len(aggregate_call.scan_results) : aggregate_call.scan_results[i][1] = mac}

\* the entries of mac whose payload parse_bthome decodes
DecodableOf(mac) ==
    {i \in EntriesOf(mac) : parse_bthome(aggregate_call.scan_results[i][2]).error = ""}

AggregatedMacs == {aggregate_call.aggregated[i][1] : i \in 1..Len(aggregate_call.aggregated)}

ParsedEntry(j) == parse_bthome(aggregate_call.scan_results[j][2]).result

\* C13: the map returned for a MAC has as keys the union of the keys of the payloads
\* of that MAC that decode, and for each key the value of the last such payload, in
\* list order, that carries the key; each MAC is returned at most once.
C13_LastSuccessfulWins ==
    aggregate_call.state = "returned" =>
        \A i \in 1..Len(aggregate_call.aggregated) :
            LET mac == aggregate_call.aggregated[i][1]
                merged == aggregate_call.aggregated[i][2]
            IN  /\ DOMAIN merged = UNION {DOMAIN ParsedEntry(j) : j \in DecodableOf(mac)}
                /\ \A k \in DOMAIN merged :
                       LET carriers == {j \in DecodableOf(mac) : k \in DOMAIN ParsedEntry(j)}
                           last == CHOOSE j \in carriers : \A l \in carriers : l <= j
                       IN  merged[k] = ParsedEntry(last)[k]
                /\ \A l \in 1..Len(aggregate_call.aggregated) :
                       aggregate_call.aggregated[l][1] = mac => l = i

\* a MAC sent temperature and humidity and later a temperature alone: the later
\* temperature is returned together with the earlier humidity
C13_Witness ==
    /\ aggregate_call.state = "returned"
    /\ \E i \in 1..Len(aggregate_call.aggregated) :
           LET merged == aggregate_call.aggregated[i][2]
           IN  /\ DOMAIN merged = {"temperature", "humidity"}
               /\ merged["temperature"] = 2560
               /\ merged["humidity"] = 6540

\* C14: a MAC of known_macs that has payloads in the list, none of which decodes, is
\* not a key of the result and is named by exactly one warning, however many of its
\* payloads failed.
C14_OneWarningPerFailedDevice ==
    aggregate_call.state = "returned" =>
        \A mac \in aggregate_call.known_macs :
            (EntriesOf(mac) # {} /\ DecodableOf(mac) = {}) =>
                /\ mac \notin AggregatedMacs
                /\ mac \in DOMAIN aggregate_call.warnings
                /\ aggregate_call.warnings[mac] = 1

\* two payloads of one known MAC failed and one warning was logged for it
C14_Witness ==
    /\ aggregate_call.state = "returned"
    /\ \E mac \in aggregate_call.known_macs :
           /\ Cardinality(EntriesOf(mac)) >= 2
           /\ DecodableOf(mac) = {}
           /\ mac \in DOMAIN aggregate_call.warnings
           /\ aggregate_call.warnings[mac] = 1

\* the map returned for mac (the empty map when mac is not returned)
MergedOf(mac) ==
    LET hits == {i \in 1..Len(aggregate_call.aggregated) :
                    aggregate_call.aggregated[i][1] = mac}
    IN  IF hits = {} THEN EmptyMap ELSE aggregate_call.aggregated[CHOOSE i \in hits : TRUE][2]

\* C15: a payload that fails to decode is dropped and the loop goes on: every payload
\* of a known MAC is given to parse_bthome, and when at least one of them decodes the
\* MAC is returned with the keys of all its payloads that decode, whether they came
\* before or after a failing one, and no warning names it.
C15_FailedPayloadSkipped ==
    aggregate_call.state = "returned" =>
        \A mac \in aggregate_call.known_macs :
            /\ \A j \in EntriesOf(mac) :
                   <<mac, aggregate_call.scan_results[j][2]>> \in aggregate_call.parsed
            /\ DecodableOf(mac) # {} =>
                   /\ mac \in AggregatedMacs
                   /\ mac \notin DOMAIN aggregate_call.warnings
                   /\ \A j \in DecodableOf(mac) :
                          DOMAIN ParsedEntry(j) \subseteq DOMAIN MergedOf(mac)

\* a failing payload between two payloads that decode: both are in the returned map
C15_Witness ==
    /\ aggregate_call.state = "returned"
    /\ \E mac \in aggregate_call.known_macs :
           /\ \E i, j, k \in EntriesOf(mac) :
                  /\ i < j /\ j < k
                  /\ i \in DecodableOf(mac)
                  /\ j \notin DecodableOf(mac)
                  /\ k \in DecodableOf(mac)
           /\ DOMAIN MergedOf(mac) = {"temperature", "humidity", "battery"}
           /\ aggregate_call.warnings = EmptyMap

(***************************************************************************)
(* Properties of parse_bthome                                              *)
(***************************************************************************)
ParseDone == parse_call.state \in {"returned", "raised"}

TooShort == "Packet too short to be valid BTHome"

NoData == "No valid sensor data found in packet"

IncompleteField ==
    {"Incomplete temperature data", "Incomplete humidity data",
     "Incomplete battery data", "Incomplete voltage data"}

\* C17: parse_bthome raises the too-short error for every payload of length 0 or 1
\* and for no payload of length 2 or more.
C17_TooShortBelowTwo ==
    ParseDone =>
        /\ Len(parse_call.payload) < 2 =>
               parse_call.state = "raised" /\ parse_call.error = TooShort
        /\ Len(parse_call.payload) >= 2 => parse_call.error # TooShort

\* a payload of one byte was rejected as too short
C17_Witness ==
    /\ parse_call.state = "raised"
    /\ Len(parse_call.payload) = 1
    /\ parse_call.error = TooShort

\* the widths the object table declares; 0 stands for an id the table does not list
DeclaredWidth(object_id) ==
    IF object_id \in {2, 3, 12} THEN 2
    ELSE IF object_id = 10 THEN 1
    ELSE IF object_id = 16 THEN 3
    ELSE IF object_id \in {0, 1, 5, 6, 7, 8, 9, 11, 13} THEN 1
    ELSE IF object_id \in {4, 14, 15, 17} THEN 2
    ELSE 0

RECURSIVE TruncatedObject(_, _)
\* reading objects of their declared widths from offset idx on, an object of a listed
\* id is met that has fewer bytes left than its declared width
TruncatedObject(payload, idx) ==
    IF idx >= Len(payload) THEN FALSE
    ELSE LET object_id == payload[idx + 1]
             width == IF DeclaredWidth(object_id) = 0 THEN 1 ELSE DeclaredWidth(object_id)
         IN  IF idx + 1 + width > Len(payload) THEN DeclaredWidth(object_id) # 0
             ELSE TruncatedObject(payload, idx + 1 + width)

\* C18: whenever an object id of the width table is followed by fewer bytes than its
\* declared width, parse_bthome raises one of the incomplete-field errors; a payload
\* with a truncated object is never accepted.
C18_TruncatedObjectRejected ==
    (ParseDone /\ Len(parse_call.payload) >= 2 /\ TruncatedObject(parse_call.payload, 1)) =>
        /\ parse_call.state = "raised"
        /\ parse_call.error \in IncompleteField

RECURSIVE MeasurementObject(_, _)
\* reading objects of their declared widths from offset idx on, the id of a
\* temperature, humidity, battery or voltage object is met
MeasurementObject(payload, idx) ==
    IF idx >= Len(payload) THEN FALSE
    ELSE LET object_id == payload[idx + 1]
             width == IF DeclaredWidth(object_id) = 0 THEN 1 ELSE DeclaredWidth(object_id)
         IN  \/ object_id \in {2, 3, 10, 12}
             \/ MeasurementObject(payload, idx + 1 + width)

\* C19: parse_bthome raises the no-data error exactly for the payloads of length 2 or
\* more that are read to their end without meeting a temperature, humidity, battery
\* or voltage object; a call that returns, returns a non-empty map.
C19_NoDataIffNothingDecoded ==
    ParseDone =>
        /\ parse_call.error = NoData <=>
               /\ Len(parse_call.payload) >= 2
               /\ ~MeasurementObject(parse_call.payload, 1)
        /\ parse_call.error = NoData => parse_call.state = "raised"
        /\ parse_call.state = "returned" => DOMAIN parse_call.result # {}

\* a payload of skipped objects only was rejected for carrying no data
C19_Witness ==
    /\ parse_call.state = "raised"
    /\ parse_call.error = NoData
    /\ Len(parse_call.payload) = 5
    /\ parse_call.payload[2] = 16
    /\ parse_call.payload[3] = 10

\* the measurement the first object of payload carries, read from exactly the bytes
\* of its declared width (the empty map for an object that carries none)
FirstMeasurement(payload) ==
    LET object_id == payload[2]
    IN  IF object_id = 2 THEN "temperature" :> UnpackS16(payload, 2)
        ELSE IF object_id = 3 THEN "humidity" :> UnpackU16(payload, 2)
        ELSE IF object_id = 10 THEN "battery" :> (10 * payload[3])
        ELSE IF object_id = 12 THEN "battery" :> VoltageToBattery(UnpackU16(payload, 2))
        ELSE EmptyMap

\* C20: parse_bthome ignores the value of the first byte and reads each object with
\* exactly its declared width: a payload whose first object is complete is decoded as
\* that object followed by the decoding of the bytes after its value, whatever the
\* value bytes are; so a byte 0x0A inside the two value bytes of object 0x0C is never
\* read as an object id.
C20_ExactWidthConsumed ==
    (ParseDone /\ Len(parse_call.payload) >= 2) =>
        LET payload == parse_call.payload
            object_id == payload[2]
            width == IF DeclaredWidth(object_id) = 0 THEN 1 ELSE DeclaredWidth(object_id)
            rest == SubSeq(payload, 3 + width, Len(payload))
            tail == IF rest = <<>> THEN ParseError(NoData)
                    ELSE parse_bthome(<<payload[1]>> \o rest)
            merged == DictUpdate(FirstMeasurement(payload), tail.result)
            other == parse_bthome(<<64>> \o Tail(payload))
        IN  /\ other.error = parse_call.error
            /\ other.result = parse_call.result
            /\ Len(payload) >= 2 + width =>
                   IF tail.error \in IncompleteField
                   THEN parse_call.error = tail.error
                   ELSE IF DOMAIN merged = {}
                   THEN parse_call.error = NoData
                   ELSE /\ parse_call.state = "returned"
                        /\ parse_call.result = merged

\* a voltage of 2560 mV, whose high byte is 0x0A, followed by one more object: the
\* battery is the one computed from the voltage
C20_Witness ==
    /\ parse_call.state = "returned"
    /\ Len(parse_call.payload) = 5
    /\ parse_call.payload[2] = 12
    /\ parse_call.payload[3] = 0
    /\ parse_call.payload[4] = 10
    /\ parse_call.result = ("battery" :> 560)

RECURSIVE ObjectOffsets(_, _)
\* the offsets of the object ids of payload that are followed by all the bytes of
\* their declared width, reading from offset idx on
ObjectOffsets(payload, idx) ==
    IF idx >= Len(payload) THEN {}
    ELSE LET object_id == payload[idx + 1]
             width == IF DeclaredWidth(object_id) = 0 THEN 1 ELSE DeclaredWidth(object_id)
         IN  IF idx + 1 + width > Len(payload) THEN {}
             ELSE {idx} \cup ObjectOffsets(payload, idx + 1 + width)

\* the object ids that produce each quantity
ProducersOf(quantity) ==
    IF quantity = "temperature" THEN {2}
    ELSE IF quantity = "humidity" THEN {3}
    ELSE {10, 12}

\* the value of the measurement object at offset idx: hundredths, tenths for the battery
ValueAt(payload, idx) ==
    LET lo == payload[idx + 2]
        hi == IF idx + 3 <= Len(payload) THEN payload[idx + 3] ELSE 0
        u == lo + 256 * hi
    IN  IF payload[idx + 1] = 2 THEN (IF u >= 32768 THEN u - 65536 ELSE u)
        ELSE IF payload[idx + 1] = 3 THEN u
        ELSE IF payload[idx + 1] = 10 THEN 10 * lo
        ELSE IF u <= 2000 THEN 0 ELSE IF u >= 3000 THEN 1000 ELSE u - 2000

\* C21: the value parse_bthome returns for a quantity is the one of the last object
\* of the payload that produces that quantity; in particular a voltage object that
\* follows a battery object replaces the battery value.
C21_LastObjectWins ==
    parse_call.state = "returned" =>
        \A quantity \in {"temperature", "humidity", "battery"} :
            LET payload == parse_call.payload
                objects == {idx \in ObjectOffsets(payload, 1) :
                               payload[idx + 1] \in ProducersOf(quantity)}
            IN  IF objects = {} THEN quantity \notin DOMAIN parse_call.result
                ELSE /\ quantity \in DOMAIN parse_call.result
                     /\ parse_call.result[quantity] =
                            ValueAt(payload, CHOOSE idx \in objects : \A o \in objects : o <= idx)

\* battery 0 from object 0x0A, then 2560 mV from object 0x0C: the battery is 56.0
C21_Witness ==
    /\ parse_call.state = "returned"
    /\ parse_call.payload = <<64, 10, 0, 12, 0, 10>>
    /\ parse_call.result = ("battery" :> 560)

\* C22: the battery decoded from a voltage object of v millivolts is (v - 2000) / 10
\* percent kept to one decimal and clamped to 0..100: 0 up to 2000 mV, 100 from
\* 3000 mV on; the battery decoded from a battery object is the value of its byte,
\* 0..255, not clamped.
C22_VoltageClampedBatteryRaw ==
    (ParseDone /\ parse_call.quantity # <<>>) =>
        LET raw == parse_call.quantity[2]
        IN  /\ parse_call.quantity[1] = "voltage" =>
                   /\ parse_call.state = "returned"
                   /\ parse_call.result["battery"] >= 0
                   /\ parse_call.result["battery"] <= 1000
                   /\ raw <= 2000 => parse_call.result["battery"] = 0
                   /\ raw >= 3000 => parse_call.result["battery"] = 1000
                   /\ (raw > 2000 /\ raw < 3000) => parse_call.result["battery"] = raw - 2000
            /\ parse_call.quantity[1] = "battery" =>
                   /\ parse_call.state = "returned"
                   /\ parse_call.result["battery"] = 10 * raw

\* 65535 mV, the largest value the field holds, decoded as 100 percent
C22_Witness ==
    /\ parse_call.state = "returned"
    /\ parse_call.quantity = <<"voltage", 65535>>
    /\ parse_call.result = ("battery" :> 1000)

\* C23: decoding the encoding of a temperature of -32768..32767 hundredths or of a
\* humidity of 0..65535 hundredths returns that quantity, and decoding a voltage of
\* 2000..3000 mV returns the percentage it stands for, (v - 2000) / 10.
C23_RoundTrip ==
    (ParseDone /\ parse_call.quantity # <<>>) =>
        LET name == parse_call.quantity[1]
            raw == parse_call.quantity[2]
        IN  /\ name \in {"temperature", "humidity"} =>
                   /\ parse_call.state = "returned"
                   /\ parse_call.result = (name :> raw)
            /\ (name = "voltage" /\ raw >= 2000 /\ raw <= 3000) =>
                   /\ parse_call.state = "returned"
                   /\ parse_call.result = ("battery" :> (raw - 2000))

\* -10.50 degrees, encoded as E6 FB, decoded as -10.50
C23_Witness ==
    /\ parse_call.state = "returned"
    /\ parse_call.quantity = <<"temperature", -1050>>
    /\ parse_call.payload = <<64, 2, 230, 251>>
    /\ parse_call.result = ("temperature" :> -1050)

\* C24: parse_bthome terminates on every payload; every iteration of its loop that
\* does not raise advances idx by at least 2; an object id outside the width table
\* is skipped together with one value byte and leaves the measurements untouched, so
\* the objects after it are decoded; the outcome is that of the call as a whole.
C24_LoopTerminates ==
    /\ <>ParseDone
    /\ [][ (parse_call.state = "loop" /\ parse_call'.state = "loop") =>
               /\ parse_call'.idx >= parse_call.idx + 2
               /\ DeclaredWidth(parse_call.payload[parse_call.idx + 1]) = 0 =>
                      /\ parse_call'.idx = parse_call.idx + 2
                      /\ parse_call'.result = parse_call.result
          ]_vars
    /\ [](ParseDone =>
             /\ parse_call.error = parse_bthome(parse_call.payload).error
             /\ parse_call.result = parse_bthome(parse_call.payload).result)

\* an id outside the table, its value byte, then a battery object that was decoded
C24_Witness ==
    /\ parse_call.state = "returned"
    /\ parse_call.payload = <<64, 255, 10, 10, 2>>
    /\ parse_call.result = ("battery" :> 20)
    /\ parse_call.idx = 5

(***************************************************************************)
(* Properties of update_metrics                                            *)
(***************************************************************************)
GaugeNames == {"temperature", "humidity", "battery", "last_update", "seen"}

\* the gauge of this name has the same child for this label before and after the step
SameChild(gauge, label) ==
    /\ (label \in DOMAIN gauges[gauge]) = (label \in DOMAIN gauges'[gauge])
    /\ label \in DOMAIN gauges[gauge] => gauges'[gauge][label] = gauges[gauge][label]

\* C25: a call update_metrics(device_name, measurements) sets the last-update
\* timestamp of device_name to the time of the call and its seen indicator to 1, sets
\* the gauge of every quantity that is a key of measurements to its value, and leaves
\* the gauges of the other quantities and every gauge of every other name as they were.
C25_RecordFrame ==
    [][ metrics_calls' # metrics_calls =>
          LET call == metrics_calls'[Len(metrics_calls')]
              device_name == call[1]
              measurements == call[2]
          IN  /\ gauges'.last_update[device_name] = call[3]
              /\ gauges'.seen[device_name] = 1
              /\ \A quantity \in {"temperature", "humidity", "battery"} :
                     IF quantity \in DOMAIN measurements
                     THEN gauges'[quantity][device_name] = measurements[quantity]
                     ELSE SameChild(quantity, device_name)
              /\ \A gauge \in GaugeNames, label \in MetricsNames \ {device_name} :
                     SameChild(gauge, label)
              /\ \A gauge \in GaugeNames : DOMAIN gauges'[gauge] \subseteq MetricsNames
      ]_vars

\* the latest call gave living_room a battery only: its temperature of an earlier
\* call and the gauges of bedroom are still there
C25_Witness ==
    /\ Len(metrics_calls) = 3
    /\ metrics_calls[3][1] = "living_room"
    /\ DOMAIN metrics_calls[3][2] = {"battery"}
    /\ "living_room" \in DOMAIN gauges.temperature
    /\ "bedroom" \in DOMAIN gauges.battery
    /\ gauges.last_update["living_room"] > gauges.last_update["bedroom"]

\* C26: after any sequence of calls, the gauge of a quantity for a name holds the
\* value of the latest call for that name whose measurements carry that quantity,
\* and has no child for a name no such call was made for.
C26_LastCallWins ==
    \A label \in MetricsNames, quantity \in {"temperature", "humidity", "battery"} :
        LET calls == {i \in 1..Len(metrics_calls) :
                         /\ metrics_calls[i][1] = label
                         /\ quantity \in DOMAIN metrics_calls[i][2]}
        IN  IF calls = {} THEN label \notin DOMAIN gauges[quantity]
            ELSE /\ label \in DOMAIN gauges[quantity]
                 /\ gauges[quantity][label] =
                        metrics_calls[CHOOSE i \in calls : \A j \in calls : j <= i][2][quantity]

\* living_room was given 21.50 and later 25.60 degrees: the gauge shows 25.60
C26_Witness ==
    /\ \E i, j \in 1..Len(metrics_calls) :
           /\ i < j
           /\ metrics_calls[i][1] = "living_room" /\ metrics_calls[j][1] = "living_room"
           /\ "temperature" \in DOMAIN metrics_calls[i][2]
           /\ "temperature" \in DOMAIN metrics_calls[j][2]
           /\ metrics_calls[i][2]["temperature"] = 2150
           /\ metrics_calls[j][2]["temperature"] = 2560
    /\ Len(metrics_calls) = 2
    /\ gauges.temperature["living_room"] = 2560

(***************************************************************************)
(* Properties of the gauges and of the scanner                             *)
(***************************************************************************)
\* C27: after a completed scan, ble_sensor_seen is 1 only for the display names
\* update_metrics was called for in that scan.
C27_SeenOnlyInLatestScan ==
    cycle.outcome = "ok" =>
        \A label \in DOMAIN gauges.seen :
            gauges.seen[label] = 1 =>
                \E i \in 1..Len(cycle.forwarded) : cycle.forwarded[i][2] = label

\* C28: while a scan runs, every stored advertisement is added after the ones stored
\* before, also when its MAC has an entry already, so that two advertisements of one
\* MAC with different payloads give two entries, the earlier one as it was; and scan
\* returns the entries in that order.
C28_EveryAdvertisementKept ==
    [][ /\ (scanner.kind = "bleak" /\ scanner'.advertisements # scanner.advertisements
                                   /\ scanner'.advertisements # <<>>) =>
               /\ Len(scanner'.advertisements) = Len(scanner.advertisements) + 1
               /\ SubSeq(scanner'.advertisements, 1, Len(scanner.advertisements))
                      = scanner.advertisements
        /\ (scanner.kind = "bleak" /\ ScanSucceeds) =>
               cycle'.results = scanner.advertisements
      ]_vars

\* C29: every call of BleakScannerImpl.scan starts with an empty store, the store
\* only grows by advertisements the radio delivers, and the call returns the store
\* as it is when the scanner has stopped: nothing collected during an earlier scan
\* or between two scans is returned.
C29_FreshWindow ==
    [][ scanner.kind = "bleak" =>
          /\ scanSeq' # scanSeq => scanner'.advertisements = <<>>
          /\ ScanSucceeds =>
                 /\ pc = "scan_stop"
                 /\ cycle'.results = scanner.advertisements
          /\ \A i \in 1..Len(scanner'.advertisements) :
                 \/ \E j \in 1..Len(scanner.advertisements) :
                        scanner.advertisements[j] = scanner'.advertisements[i]
                 \/ \E d \in radio : \E k \in 1..Len(d[2]) :
                        scanner'.advertisements[i] = <<d[1], d[2][k]>>
      ]_vars

\* the second scan returned nothing although the first had collected living_room
C29_Witness ==
    /\ scanner.kind = "bleak"
    /\ cycle.outcome = "ok"
    /\ cycle.completed = 2
    /\ cycle.results = <<>>
    /\ "living_room" \in DOMAIN gauges.seen

\* C30: when starting or stopping the BleakScanner raises an error, scan raises a
\* RuntimeError and returns nothing: the loop handles a RuntimeError, no result of
\* that scan is aggregated or forwarded, and gauges and status stay as they were.
C30_ScanFailureRaisesRuntimeError ==
    [][ (scanner.kind = "bleak" /\ ScanRaises) =>
           /\ cycle'.outcome = "error"
           /\ cycle'.raised = "RuntimeError"
           /\ cycle'.results = <<>>
           /\ cycle'.forwarded = <<>>
           /\ gauges' = gauges
           /\ status_tracker' = status_tracker
      ]_vars

\* stopping failed after advertisements had been collected: none was returned
C30_Witness ==
    /\ pc = "retry_sleep"
    /\ cycle.outcome = "error"
    /\ cycle.raised = "RuntimeError"
    /\ scanner.advertisements # <<>>
    /\ gauges = NoGauges

(***************************************************************************)
(* Further properties of the acquisition loop                              *)
(***************************************************************************)
\* the idle sleep of line 127 is over and the loop is back at line 101
AfterIdle ==
    /\ pc = "idle_sleep"
    /\ sleep_duration = config.scan_interval_seconds - config.scan_duration_seconds
    /\ sleep_duration > 0
    /\ cycle.outcome = "ok"
    /\ cycle.config_warnings = 0
    /\ cycle.errors = 0

\* the warning of line 129 was logged in this step, without any sleep
AfterWarning ==
    /\ ScanSucceeds
    /\ cycle'.outcome = "ok"
    /\ cycle'.config_warnings = 1
    /\ cycle'.errors = 0
    /\ sleep_duration' = 0

\* the retry sleep of line 138 is over and the loop is back at line 101
AfterRetry ==
    /\ pc = "retry_sleep"
    /\ sleep_duration = 5
    /\ cycle.outcome = "error"
    /\ cycle.config_warnings = 0
    /\ cycle.errors = 1

\* C31: the first thing the task does is call scanner.scan, without a sleep; every
\* call of scanner.scan passes config.scan_duration_seconds and the loop stays inside
\* that one call until it returns or raises; and a call that is not the first one
\* comes after exactly one of: the idle sleep, the back-to-back warning, the 5-second
\* retry sleep.
C31_OneScanPerStep ==
    [][ /\ (pc = "created" /\ pc' \notin {"created", "cancelled"}) =>
              /\ scanSeq' # scanSeq
              /\ pc' \in ScanPcs
              /\ now' = now
              /\ sleep_duration' = 0
        /\ scanSeq' # scanSeq =>
              /\ pc' \in ScanPcs
              /\ scanner'.duration_s = config.scan_duration_seconds
              /\ pc \in {"created", "idle_sleep", "retry_sleep"} \/ ScanSucceeds
        /\ (scanSeq' # scanSeq /\ pc # "created") =>
              /\ AfterIdle \/ AfterWarning \/ AfterRetry
              /\ ~(AfterIdle /\ AfterWarning)
              /\ ~(AfterIdle /\ AfterRetry)
              /\ ~(AfterWarning /\ AfterRetry)
        /\ (pc \in ScanPcs /\ pc' \in ScanPcs /\ scanSeq' = scanSeq) =>
              scanner'.duration_s = scanner.duration_s
      ]_vars

\* a scan that followed the retry sleep returned, and the idle sleep is running
C31_Witness ==
    /\ pc = "idle_sleep"
    /\ cycle.outcome = "ok"
    /\ cycle.completed = 1
    /\ now >= StartClock + 5
    /\ scanner.duration_s = 1

\* a cancellation takes effect: CancelledError is thrown into the task
CancellationTakesEffect == cancel_requested /\ ~cancel_requested'

\* C34: the gauges and the status change only in the step in which a scan returns, and
\* that one step, which has no await, makes every update_metrics call of the cycle and
\* then the status update; a cancellation takes effect at an await only, so it changes
\* neither the gauges nor the status and never falls between the two.
C34_SinkThenStatusNoYield ==
    [][ /\ (gauges' # gauges \/ status_tracker' # status_tracker) =>
              /\ ScanSucceeds
              /\ StatusPair(status_tracker') = <<now', Len(cycle'.forwarded)>>
              /\ \A i \in 1..Len(cycle'.aggregated) :
                     Truthy(DictGet(config.devices, cycle'.aggregated[i][1])) =>
                         \E k \in 1..Len(cycle'.forwarded) :
                             cycle'.forwarded[k][1] = cycle'.aggregated[i][1]
              /\ \A k \in 1..Len(cycle'.forwarded) :
                     LET device_name == cycle'.forwarded[k][2]
                     IN  /\ device_name \in DOMAIN gauges'.last_update
                         /\ gauges'.last_update[device_name] = now'
        /\ CancellationTakesEffect =>
              /\ cancel_point' \in ScanPcs \cup {"created", "idle_sleep", "retry_sleep"}
              /\ gauges' = gauges
              /\ status_tracker' = status_tracker
      ]_vars

\* cancelled after a cycle that recorded two devices: both carry the timestamp of the
\* status, which counts two
C34_Witness ==
    /\ pc = "cancelled"
    /\ cycle.outcome = "ok"
    /\ Len(cycle.forwarded) = 2
    /\ status_tracker.devices_seen = 2
    /\ \A k \in 1..2 :
           gauges.last_update[cycle.forwarded[k][2]] = status_tracker.last_scan_timestamp

\* C35: a step in which scanner.scan raises calls update_metrics for no device and
\* leaves the gauges and the status as they were; after one or more failed steps in a
\* row the status still holds the timestamp and the device count of the last window
\* that completed.
C35_FailureKeepsStatus ==
    [][ /\ ScanRaises =>
              /\ status_tracker' = status_tracker
              /\ gauges' = gauges
              /\ cycle'.forwarded = <<>>
              /\ cycle'.failures = Min(cycle.failures + 1, 2)
              /\ cycle'.window = cycle.window
        /\ cycle'.failures >= 1 => StatusPair(status_tracker') = WindowPair'
      ]_vars

\* two failed steps in a row after a window that counted one device
C35_Witness ==
    /\ cycle.failures = 2
    /\ cycle.completed >= 1
    /\ status_tracker.devices_seen = 1
    /\ status_tracker.last_scan_timestamp > 0
    /\ status_tracker.last_scan_timestamp < now

\* C36: in every state the device count of the status, and of every /status response,
\* is at least 0 and at most the number of entries of config.devices.
C36_DevicesSeenBounded ==
    /\ status_tracker.devices_seen \in 0..Cardinality(DOMAIN config.devices)
    /\ StatusData(status_tracker).devices_seen \in 0..Cardinality(DOMAIN config.devices)
    /\ snapshot # NoSnapshot =>
           snapshot.devices_seen \in 0..Cardinality(DOMAIN config.devices)

\* a scan returned two packets of the only configured device: it is counted once
C36_Witness ==
    /\ Cardinality(DOMAIN config.devices) = 1
    /\ cycle.outcome = "ok"
    /\ Len(cycle.results) = 2
    /\ \A i \in 1..2 : cycle.results[i][1] \in DOMAIN config.devices
    /\ status_tracker.devices_seen = 1
    /\ snapshot # NoSnapshot
    /\ snapshot.devices_seen = 1

\* C39: with the clock never going back, no step lowers last_scan_timestamp: a status
\* update writes the clock, which is at least the timestamp it replaces, and a step in
\* which the scan raises or in which a cancellation takes effect leaves it as it is,
\* so that it is never back at its initial 0.
C39_TimestampNeverDecreases ==
    [][ /\ now' >= now
        /\ status_tracker'.last_scan_timestamp >= status_tracker.last_scan_timestamp
        /\ status_tracker'.last_scan_timestamp # status_tracker.last_scan_timestamp =>
               /\ ScanSucceeds
               /\ status_tracker'.last_scan_timestamp = now'
        /\ (ScanRaises \/ CancellationTakesEffect) =>
               status_tracker'.last_scan_timestamp = status_tracker.last_scan_timestamp
        /\ cycle.completed >= 1 => status_tracker'.last_scan_timestamp > 0
      ]_vars

\* two windows completed, the later with the greater timestamp, then a scan failed
\* and the task was cancelled in the retry sleep
C39_Witness ==
    /\ pc = "cancelled"
    /\ cancel_point = "retry_sleep"
    /\ cycle.completed = 2
    /\ cycle.failures >= 1
    /\ status_tracker.last_scan_timestamp > StartClock + 2
    /\ status_tracker.last_scan_timestamp = cycle.window.timestamp

\* the names of the quantities parse_bthome can return
QuantityNames == {"temperature", "humidity", "battery"}

\* C40: every map of the dict aggregate_scan_results returns to the loop, and every
\* map given to update_metrics, has at least one key and only keys among temperature,
\* humidity and battery; no MAC is returned or forwarded with an empty map.
C40_MapsNonEmptyAndClosed ==
    /\ \A i \in 1..Len(cycle.aggregated) :
           /\ DOMAIN cycle.aggregated[i][2] # {}
           /\ DOMAIN cycle.aggregated[i][2] \subseteq QuantityNames
    /\ \A k \in 1..Len(cycle.forwarded) :
           /\ DOMAIN cycle.forwarded[k][3] # {}
           /\ DOMAIN cycle.forwarded[k][3] \subseteq QuantityNames

\* a scan returned a payload that fails and one that decodes for the same device,
\* and one for an unknown device: one map with the battery alone was forwarded
C40_Witness ==
    /\ cycle.outcome = "ok"
    /\ Len(cycle.results) = 3
    /\ Len(cycle.aggregated) = 1
    /\ Len(cycle.forwarded) = 1
    /\ DOMAIN cycle.forwarded[1][3] = {"battery"}

(***************************************************************************)
(* Further properties of aggregate_scan_results                            *)
(***************************************************************************)
\* C32: after every call, a MAC of known_macs with at least one entry in the list is
\* either a key of the result or named by a warning, never both and never neither; a
\* MAC of known_macs without an entry is neither.
C32_ResultOrWarning ==
    aggregate_call.state = "returned" =>
        \A mac \in aggregate_call.known_macs :
            IF EntriesOf(mac) # {}
            THEN (mac \in AggregatedMacs) # (mac \in DOMAIN aggregate_call.warnings)
            ELSE /\ mac \notin AggregatedMacs
                 /\ mac \notin DOMAIN aggregate_call.warnings

\* one known MAC is returned although one of its payloads failed, the other known MAC
\* is named by a warning
C32_Witness ==
    /\ aggregate_call.state = "returned"
    /\ aggregate_call.known_macs = {MacLivingRoom, MacBedroom}
    /\ \E mac \in aggregate_call.known_macs :
           /\ mac \in AggregatedMacs
           /\ EntriesOf(mac) \ DecodableOf(mac) # {}
    /\ \E mac \in aggregate_call.known_macs :
           /\ mac \in DOMAIN aggregate_call.warnings
           /\ mac \notin AggregatedMacs

\* the entries of the list whose payload parse_bthome decodes, in list order
DecodableEntries ==
    SelectSeq(aggregate_call.scan_results, LAMBDA e : parse_bthome(e[2]).error = "")

\* the map a returned dict holds for mac (the empty map when mac is not a key)
MergedIn(aggregated, mac) ==
    LET hits == {i \in 1..Len(aggregated) : aggregated[i][1] = mac}
    IN  IF hits = {} THEN EmptyMap ELSE aggregated[CHOOSE i \in hits : TRUE][2]

\* what parse_bthome had decoded from entry j of the list when it raised
DecodedBeforeFailure(j) ==
    IF Len(aggregate_call.scan_results[j][2]) < 2 THEN EmptyMap
    ELSE ResultAtExit(aggregate_call.scan_results[j][2], 1, EmptyMap)

\* C33: a payload on which parse_bthome raises contributes nothing, also when objects
\* before the failing one were complete: every value of a returned map is the value a
\* payload that decoded carries for that key, and the call returns for every MAC the
\* map it returns for the list without the failing payloads.
C33_FailedPayloadContributesNothing ==
    aggregate_call.state = "returned" =>
        \A mac \in MACs :
            /\ \A k \in DOMAIN MergedOf(mac) :
                   \E j \in DecodableOf(mac) :
                       /\ k \in DOMAIN ParsedEntry(j)
                       /\ ParsedEntry(j)[k] = MergedOf(mac)[k]
            /\ MergedOf(mac) =
                   MergedIn(aggregate_scan_results(DecodableEntries,
                                                   aggregate_call.known_macs).aggregated, mac)

\* a payload with a complete temperature and a cut humidity came last for a MAC whose
\* earlier payload carried another temperature: the earlier temperature is returned
C33_Witness ==
    /\ aggregate_call.state = "returned"
    /\ \E mac \in aggregate_call.known_macs :
           \E i, j \in EntriesOf(mac) :
               /\ i < j
               /\ i \in DecodableOf(mac)
               /\ j \notin DecodableOf(mac)
               /\ "temperature" \in DOMAIN DecodedBeforeFailure(j)
               /\ "temperature" \in DOMAIN MergedOf(mac)
               /\ MergedOf(mac)["temperature"] # DecodedBeforeFailure(j)["temperature"]

\* a returned dict as a mapping, without its insertion order
AsMapping(aggregated) ==
    [mac \in {aggregated[i][1] : i \in 1..Len(aggregated)} |-> MergedIn(aggregated, mac)]

\* the list with its entries i and i + 1 exchanged
SwapEntries(scan_results, i) ==
    [j \in 1..Len(scan_results) |->
        IF j = i THEN scan_results[i + 1]
        ELSE IF j = i + 1 THEN scan_results[i]
        ELSE scan_results[j]]

\* C38: exchanging two neighbouring entries of different MACs (known or not), which
\* keeps the order of the payloads of every MAC, changes neither the mapping the call
\* returns nor the warnings it logs; any two lists with the same payload order per
\* MAC differ by a series of such exchanges.
C38_InterleavingIrrelevant ==
    aggregate_call.state = "returned" =>
        \A i \in 1..(Len(aggregate_call.scan_results) - 1) :
            aggregate_call.scan_results[i][1] # aggregate_call.scan_results[i + 1][1] =>
                LET other == aggregate_scan_results(SwapEntries(aggregate_call.scan_results, i),
                                                    aggregate_call.known_macs)
                IN  /\ AsMapping(other.aggregated) = AsMapping(aggregate_call.aggregated)
                    /\ other.warnings = aggregate_call.warnings

\* the payloads of one MAC were separated by an entry of another known MAC that
\* failed: the first MAC is returned with the values of both its payloads, the other
\* one is warned about
C38_Witness ==
    /\ aggregate_call.state = "returned"
    /\ Len(aggregate_call.scan_results) = 3
    /\ aggregate_call.scan_results[1][1] = aggregate_call.scan_results[3][1]
    /\ aggregate_call.scan_results[2][1] # aggregate_call.scan_results[1][1]
    /\ aggregate_call.scan_results[2][1] \in DOMAIN aggregate_call.warnings
    /\ DOMAIN MergedOf(aggregate_call.scan_results[1][1])
           = {"temperature", "humidity", "battery"}

(***************************************************************************)
(* Further properties of BleakScannerImpl                                  *)
(***************************************************************************)
\* C37: a BleakScanner that scan has started is stopped when that call of scan has
\* returned, has raised or was cancelled: a scanner is running only while the call
\* that started it is between its start and the end of its stop.
C37_StartedScannerStopped ==
    scanner.running => pc \in {"scan_sleep", "scan_stop"}

====
